---- MODULE Spec2Model ----
(***************************************************************************)
(* A model of trazer's TraceAnalyzer (src/trazer/analyzer.py) together     *)
(* with the parts of Trace / EventChain (src/trazer/trace.py) and of the   *)
(* TEF export (src/trazer/export.py) it relies on.                         *)
(*                                                                         *)
(* Strings are sequences of one-character strings, so that the encoder,    *)
(* the linearizer, the pattern tokenizer and the regex matcher work on     *)
(* characters as the Python code does.  Every trace event is a distinct    *)
(* object; its identity is the field id.                                   *)
(***************************************************************************)
EXTENDS Integers, Sequences, FiniteSets, TLC

VARIABLES
    events,              \* Trace.events of the analyzed trace
    process_names,       \* Trace.process_names (pid -> name)
    thread_names,        \* Trace.thread_names (<<pid, tid>> -> name)
    n_codes,             \* TraceAnalyzer._n_codes_per_event_name
    event_name_codes,    \* TraceAnalyzer.event_name_codes (name -> code)
    events_string,       \* TraceAnalyzer.events_string
    chains,              \* the EventChain objects: chain id -> [name, events, flow_ids]
    event_chains,        \* TraceAnalyzer.event_chains: a list of chain ids
    event_chain_index,   \* TraceAnalyzer._event_chain_index: key -> chain id
    history,             \* the calls made on the analyzer, with their outcomes
    wc,                  \* a call of _create_wildcard_patterns and its result
    flow_ids             \* Trace.flow_ids of the analyzed trace (flow name -> flow id)

vars == <<events, process_names, thread_names, n_codes, event_name_codes,
          events_string, chains, event_chains, event_chain_index, history, wc,
          flow_ids>>

-----------------------------------------------------------------------------
(* Bounds of the model *)

MaxEvents == 3        \* events of a trace in a session of several calls
MaxTs == 1            \* timestamps are 0..MaxTs
MaxCalls == 2         \* calls in a session
MaxMatchEvents == 5   \* events of a trace matched once
MaxTokens == 2        \* tokens of the patterns matched once (all of them)
MaxWcTokens == 4      \* tokens of the subpatterns given to _create_wildcard_patterns
MaxNames == 104       \* event names of a trace given to the encoder
MaxSyntaxLen == 5      \* characters of a pattern compiled on a trace with events
SyntaxTraceLen == 2    \* events of the traces such patterns are compiled on
MaxPatternLen == 3    \* characters of a pattern matched on an empty trace
MaxNameLen == 2       \* characters of an event name given to the validation
NamesTraceLen == 2    \* events of the traces such names are drawn for
MaxChainEvents == 4   \* events added to an event chain of its own
MaxLifeEvents == 3    \* events of a trace built by add_event
MaxCompileTokens == 4 \* tokens of the patterns whose compiled text is read
MaxWideEvents == 4    \* begins and ends of a trace of more than CODE_BASE names
MaxSequenceCalls == 3 \* calls of match and to_tef_json, in any order, after a construction

-----------------------------------------------------------------------------
(* Characters *)

CODE_BASE == 52
ASCII_OFFSET == 65

UpperCase == <<"A","B","C","D","E","F","G","H","I","J","K","L","M",
               "N","O","P","Q","R","S","T","U","V","W","X","Y","Z">>
LowerCase == <<"a","b","c","d","e","f","g","h","i","j","k","l","m",
               "n","o","p","q","r","s","t","u","v","w","x","y","z">>
Digits == <<"0","1","2","3","4","5","6","7","8","9">>

\* The characters of chr(128)..chr(255) that \w matches, in increasing code
\* point order: _re_event is a str pattern, so \w matches the letters and
\* digits of Unicode.  The characters of the model are those of
\* chr(0)..chr(255); of these \w matches the 63 of ASCII and these 71.
NonAsciiWordChars ==
    <<
      "ª", "²", "³", "µ", "¹", "º", "¼", "½", "¾", "À", "Á", "Â", "Ã", "Ä", "Å", "Æ",
      "Ç", "È", "É", "Ê", "Ë", "Ì", "Í", "Î", "Ï", "Ð", "Ñ", "Ò", "Ó", "Ô", "Õ", "Ö",
      "Ø", "Ù", "Ú", "Û", "Ü", "Ý", "Þ", "ß", "à", "á", "â", "ã", "ä", "å", "æ", "ç",
      "è", "é", "ê", "ë", "ì", "í", "î", "ï", "ð", "ñ", "ò", "ó", "ô", "õ", "ö", "ø",
      "ù", "ú", "û", "ü", "ý", "þ", "ÿ"
    >>

\* The characters the model uses, in increasing code point order.
AsciiOrder == <<" ", "!", "$", "*", "+", "-", ".">> \o Digits \o UpperCase
              \o <<"_">> \o LowerCase \o NonAsciiWordChars

Range(s) == {s[i] : i \in DOMAIN s}

\* chr(): the letter of a code point in 65..90 or 97..122
Chr(n) == IF n <= 90 THEN UpperCase[n - 64] ELSE LowerCase[n - 96]

\* ord(), up to a monotone renumbering: the position in AsciiOrder
Ord(c) == CHOOSE i \in DOMAIN AsciiOrder : AsciiOrder[i] = c

Letters == Range(UpperCase) \cup Range(LowerCase)
WordChars == Letters \cup Range(Digits) \cup {"_"} \cup Range(NonAsciiWordChars)

\* regex class [a-zA-Z]
IsLetter(c) == c \in Letters

\* regex class \w, and its complement \W
IsWordChar(c) == c \in WordChars

BEGIN == "+"
END == "-"
WILDCARD == "*"
event_type_default_code == "!"

\* A type table that takes an instant event for a begin
EventTypeCode_InstantAsBegin(type) ==
    CASE type \in {"B", "I"} -> BEGIN
      [] type = "E" -> END
      [] OTHER -> event_type_default_code

\* TraceAnalyzer._event_type_codes.get(event.__class__, _event_type_default_code)
EventTypeCode(type) ==
    CASE type = "B" -> BEGIN
      [] type = "E" -> END
      [] OTHER -> event_type_default_code

-----------------------------------------------------------------------------
(* Sequences *)

RECURSIVE Concat(_)
Concat(ss) == IF ss = <<>> THEN <<>> ELSE Head(ss) \o Concat(Tail(ss))

\* str < str of Python: lexicographic by code point
RECURSIVE StrLess(_, _)
StrLess(s, t) ==
    IF t = <<>> THEN FALSE
    ELSE IF s = <<>> THEN TRUE
    ELSE IF Head(s) = Head(t) THEN StrLess(Tail(s), Tail(t))
    ELSE Ord(Head(s)) < Ord(Head(t))

\* sorted(set(...)) of strings: the strings below the median, the median,
\* the strings above it
RECURSIVE SortedStrings(_)
SortedStrings(S) ==
    IF S = {} THEN <<>>
    ELSE LET m == CHOOSE x \in S :
                     Cardinality({y \in S : StrLess(y, x)}) = Cardinality(S) \div 2
         IN SortedStrings({y \in S : StrLess(y, m)}) \o <<m>>
            \o SortedStrings({y \in S : StrLess(m, y)})

-----------------------------------------------------------------------------
(* Event Name Encoder *)

RECURSIVE Pow(_, _)
Pow(b, e) == IF e = 0 THEN 1 ELSE b * Pow(b, e - 1)

\* math.ceil(math.log(n, CODE_BASE)) for n > 1
CeilLog(n) == CHOOSE w \in 1..8 : Pow(CODE_BASE, w) >= n /\ Pow(CODE_BASE, w - 1) < n

\* A width that does not grow with the number of names
CodeWidth_AlwaysOne(n_event_names) == IF n_event_names = 0 THEN 0 ELSE 1

\* TraceAnalyzer._n_codes_per_event_name as set by _create_event_name_codes
CodeWidth(n_event_names) ==
    IF n_event_names = 0 THEN 0
    ELSE IF n_event_names > 1 THEN CeilLog(n_event_names) ELSE 1

\* The digits of q, least significant first
RECURSIVE CodeDigits_LittleEndian(_, _)
CodeDigits_LittleEndian(q, j) ==
    IF j = 0 THEN <<>>
    ELSE LET r == q % CODE_BASE
             ascii_code == IF ASCII_OFFSET + r > 90 THEN ASCII_OFFSET + r + 6
                           ELSE ASCII_OFFSET + r
         IN <<Chr(ascii_code)>> \o CodeDigits_LittleEndian(q \div CODE_BASE, j - 1)

\* the inner loop of _create_event_name_codes: j digits of q, most
\* significant first
RECURSIVE CodeDigits(_, _)
CodeDigits(q, j) ==
    IF j = 0 THEN <<>>
    ELSE LET r == q % CODE_BASE
             ascii_code == IF ASCII_OFFSET + r > 90 THEN ASCII_OFFSET + r + 6
                           ELSE ASCII_OFFSET + r
         IN CodeDigits(q \div CODE_BASE, j - 1) \o <<Chr(ascii_code)>>

\* invalid_characters of _validate_event_name: the values of
\* _event_type_codes, the default type code and the wildcard
InvalidCharacters == {BEGIN, END, event_type_default_code, WILDCARD}

\* A validation that looks for the type codes only and lets the wildcard pass
ValidateEventName_TypeCodesOnly(event_names) ==
    IF \E i \in DOMAIN event_names :
          Range(event_names[i]) \cap {BEGIN, END, event_type_default_code} # {}
    THEN "ValueError"
    ELSE "ok"

\* TraceAnalyzer._validate_event_name: "ValueError" when a name has a
\* character in common with invalid_characters, "ok" (None) otherwise
ValidateEventName(event_names) ==
    IF \E i \in DOMAIN event_names : Range(event_names[i]) \cap InvalidCharacters # {}
    THEN "ValueError"
    ELSE "ok"

\* TraceAnalyzer._create_event_name_codes: the dict name -> code
CreateEventNameCodes(evs) ==
    LET event_names == SortedStrings({evs[i].name : i \in DOMAIN evs})
        n == Len(event_names)
    IN [nm \in Range(event_names) |->
            LET i == CHOOSE k \in 1..n : event_names[k] = nm
            IN CodeDigits(i - 1, CodeWidth(n))]

-----------------------------------------------------------------------------
(* Trace Linearizer *)

\* The codes of the events without their type suffixes
RECURSIVE CreateEventsString_CodesOnly(_, _)
CreateEventsString_CodesOnly(evs, codes) ==
    IF evs = <<>> THEN <<>>
    ELSE IF Len(evs) = 1 THEN codes[evs[1].name]
    ELSE LET half == Len(evs) \div 2
         IN CreateEventsString_CodesOnly(SubSeq(evs, 1, half), codes)
            \o CreateEventsString_CodesOnly(SubSeq(evs, half + 1, Len(evs)), codes)

\* TraceAnalyzer._create_events_string: the join of code + type code over the
\* events in trace order, computed by halves
RECURSIVE CreateEventsString(_, _)
CreateEventsString(evs, codes) ==
    IF evs = <<>> THEN <<>>
    ELSE IF Len(evs) = 1
    THEN codes[evs[1].name] \o <<EventTypeCode(evs[1].type)>>
    ELSE LET half == Len(evs) \div 2
         IN CreateEventsString(SubSeq(evs, 1, half), codes)
            \o CreateEventsString(SubSeq(evs, half + 1, Len(evs)), codes)

-----------------------------------------------------------------------------
(* Pattern Compiler *)

Min(S) == CHOOSE x \in S : \A y \in S : x <= y

\* A split that drops the empty string after a final wildcard
RECURSIVE Split_IgnoresFinalWildcard(_)
Split_IgnoresFinalWildcard(pattern) ==
    LET stars == {i \in DOMAIN pattern : pattern[i] = WILDCARD}
    IN IF stars = {} THEN <<pattern>>
       ELSE IF Min(stars) = Len(pattern) THEN <<SubSeq(pattern, 1, Len(pattern) - 1)>>
       ELSE <<SubSeq(pattern, 1, Min(stars) - 1)>>
            \o Split_IgnoresFinalWildcard(SubSeq(pattern, Min(stars) + 1, Len(pattern)))

\* str.split(WILDCARD)
RECURSIVE Split(_)
Split(pattern) ==
    LET stars == {i \in DOMAIN pattern : pattern[i] = WILDCARD}
    IN IF stars = {} THEN <<pattern>>
       ELSE <<SubSeq(pattern, 1, Min(stars) - 1)>>
            \o Split(SubSeq(pattern, Min(stars) + 1, Len(pattern)))

\* A tokenizer that takes a name at the end of the subpattern, without a
\* marker, for a begin token
RECURSIVE ReEventFindIter_NameAlone(_, _)
ReEventFindIter_NameAlone(sub, p) ==
    IF p > Len(sub) THEN <<>>
    ELSE IF ~IsWordChar(sub[p]) THEN ReEventFindIter_NameAlone(sub, p + 1)
    ELSE LET nonword == {j \in (p + 1)..Len(sub) : ~IsWordChar(sub[j])}
         IN IF nonword = {}
            THEN <<[name |-> SubSeq(sub, p, Len(sub)), type |-> BEGIN, end |-> Len(sub)]>>
            ELSE LET j == Min(nonword)
                 IN <<[name |-> SubSeq(sub, p, j - 1), type |-> sub[j], end |-> j]>>
                    \o ReEventFindIter_NameAlone(sub, j + 1)

\* A tokenizer whose matches all claim to end at the end of the subpattern
RECURSIVE ReEventFindIter_EndAtLast(_, _)
ReEventFindIter_EndAtLast(sub, p) ==
    IF p > Len(sub) THEN <<>>
    ELSE IF ~IsWordChar(sub[p]) THEN ReEventFindIter_EndAtLast(sub, p + 1)
    ELSE LET nonword == {j \in (p + 1)..Len(sub) : ~IsWordChar(sub[j])}
         IN IF nonword = {} THEN <<>>
            ELSE LET j == Min(nonword)
                 IN <<[name |-> SubSeq(sub, p, j - 1), type |-> sub[j], end |-> Len(sub)]>>
                    \o ReEventFindIter_EndAtLast(sub, j + 1)

\* TraceAnalyzer._re_event.finditer(subpattern) with _re_event = (\w+)(\W),
\* searching from position p: the matches as [name, type, end], where end is
\* the position of the last character of the match
RECURSIVE ReEventFindIter(_, _)
ReEventFindIter(sub, p) ==
    IF p > Len(sub) THEN <<>>
    ELSE IF ~IsWordChar(sub[p]) THEN ReEventFindIter(sub, p + 1)
    ELSE LET nonword == {j \in (p + 1)..Len(sub) : ~IsWordChar(sub[j])}
         IN IF nonword = {} THEN <<>>
            ELSE LET j == Min(nonword)
                 IN <<[name |-> SubSeq(sub, p, j - 1), type |-> sub[j], end |-> j]>>
                    \o ReEventFindIter(sub, j + 1)

\* A defaultdict(int) in insertion order: a sequence of [code, x]
CounterGet(counter, code) ==
    IF \E i \in DOMAIN counter : counter[i].code = code
    THEN counter[CHOOSE i \in DOMAIN counter : counter[i].code = code].x
    ELSE 0

CounterSet(counter, code, x) ==
    IF \E i \in DOMAIN counter : counter[i].code = code
    THEN [i \in DOMAIN counter |->
            IF counter[i].code = code THEN [code |-> code, x |-> x] ELSE counter[i]]
    ELSE Append(counter, [code |-> code, x |-> x])

\* The loop with an end that always decrements
RECURSIVE EventsBeforeWildcard_Unclamped(_, _)
EventsBeforeWildcard_Unclamped(toks, counter) ==
    IF toks = <<>> THEN counter
    ELSE LET c == Head(toks).code
             x == CounterGet(counter, c)
         IN EventsBeforeWildcard_Unclamped(Tail(toks),
              IF Head(toks).type = BEGIN THEN CounterSet(counter, c, x + 1)
              ELSE IF Head(toks).type = END THEN CounterSet(counter, c, x - 1)
              ELSE counter)

\* the loop over the subpattern before the wildcard (events_before_wildcard)
RECURSIVE EventsBeforeWildcard(_, _)
EventsBeforeWildcard(toks, counter) ==
    IF toks = <<>> THEN counter
    ELSE LET c == Head(toks).code
             x == CounterGet(counter, c)
         IN EventsBeforeWildcard(Tail(toks),
              IF Head(toks).type = BEGIN THEN CounterSet(counter, c, x + 1)
              ELSE IF Head(toks).type = END
                   THEN (IF x > 0 THEN CounterSet(counter, c, x - 1)
                         ELSE CounterSet(counter, c, x))
                   ELSE counter)

\* the loop over the subpattern after the wildcard (events_after_wildcard)
RECURSIVE EventsAfterWildcard(_, _)
EventsAfterWildcard(toks, counter) ==
    IF toks = <<>> THEN counter
    ELSE LET c == Head(toks).code
             x == CounterGet(counter, c)
         IN EventsAfterWildcard(Tail(toks),
              IF Head(toks).type = BEGIN THEN CounterSet(counter, c, x + 1)
              ELSE IF Head(toks).type = END
                   THEN (IF x = 0 THEN CounterSet(counter, c, x + 1)
                         ELSE CounterSet(counter, c, x - 1))
                   ELSE counter)

\* code for code, x in counter.items() if x > 0
RECURSIVE PositiveCodes(_)
PositiveCodes(counter) ==
    IF counter = <<>> THEN <<>>
    ELSE (IF Head(counter).x > 0 THEN <<Head(counter).code>> ELSE <<>>)
         \o PositiveCodes(Tail(counter))

\* excluded_begin_events of the wildcard that follows the subpattern `before`
ExcludedBeginEvents(before) == PositiveCodes(EventsBeforeWildcard(before, <<>>))

\* excluded_end_events of the wildcard that precedes the subpattern `after`
ExcludedEndEvents(after) == PositiveCodes(EventsAfterWildcard(after, <<>>))

\* The excluded ends listed before the excluded begins
ExcludedEvents_EndsFirst(before, after) ==
    [i \in 1..Len(ExcludedEndEvents(after)) |->
        [code |-> ExcludedEndEvents(after)[i], type |-> END]]
    \o [i \in 1..Len(ExcludedBeginEvents(before)) |->
        [code |-> ExcludedBeginEvents(before)[i], type |-> BEGIN]]

\* excluded_events of one wildcard: the excluded begins, then the excluded ends
ExcludedEvents(before, after) ==
    [i \in 1..Len(ExcludedBeginEvents(before)) |->
        [code |-> ExcludedBeginEvents(before)[i], type |-> BEGIN]]
    \o [i \in 1..Len(ExcludedEndEvents(after)) |->
        [code |-> ExcludedEndEvents(after)[i], type |-> END]]

\* Wildcards that exclude whatever exclusive_wildcard says
CreateWildcardPatterns_AlwaysExclusive(encoded_subpatterns, exclusive_wildcard, width) ==
    [i \in 1..(Len(encoded_subpatterns) - 1) |->
        [kind |-> "wild",
         width |-> width,
         excluded |-> ExcludedEvents(encoded_subpatterns[i], encoded_subpatterns[i + 1])]]

\* TraceAnalyzer._create_wildcard_patterns: one wildcard per pair of adjacent
\* subpatterns.  A wildcard (?:(?!e1|e2|...)[a-zA-Z]{width}\W)*? is the record
\* [kind, excluded, width]; without exclusions the lookahead is absent.
CreateWildcardPatterns(encoded_subpatterns, exclusive_wildcard, width) ==
    [i \in 1..(Len(encoded_subpatterns) - 1) |->
        [kind |-> "wild",
         width |-> width,
         excluded |-> IF exclusive_wildcard
                      THEN ExcludedEvents(encoded_subpatterns[i],
                                          encoded_subpatterns[i + 1])
                      ELSE <<>>]]

\* A marker check that lets '$' pass
ValidTypeCodes_WithDollar == {BEGIN, END, event_type_default_code, "$"}

\* [*self._event_type_codes.values(), self._event_type_default_code]
ValidTypeCodes == {BEGIN, END, event_type_default_code}

\* A compiler that resolves the names of all tokens before it checks that
\* every subpattern has a token and that nothing trails the last token
EncodeEventPattern_NamesFirst(event_pattern, exclusive_wildcard, codes, width) ==
    LET subpatterns == Split(event_pattern)
        matches == [i \in DOMAIN subpatterns |-> ReEventFindIter(subpatterns[i], 1)]
        n == Len(subpatterns)
        all == Concat(matches)
        Bad(m) == m.name \notin DOMAIN codes \/ m.type \notin ValidTypeCodes
        encoded_subpatterns ==
            [i \in DOMAIN matches |->
                [k \in DOMAIN matches[i] |->
                    [code |-> codes[matches[i][k].name], type |-> matches[i][k].type]]]
        wildcard_patterns ==
            CreateWildcardPatterns(encoded_subpatterns, exclusive_wildcard, width)
        Group(t) == [kind |-> "tok", code |-> t.code, type |-> t.type]
    IN IF \E k \in DOMAIN all : all[k].name \notin DOMAIN codes
       THEN [status |-> "EventNameNotFoundError"]
       ELSE IF \E i \in DOMAIN matches : Len(matches[i]) = 0
       THEN [status |-> "ValueError"]
       ELSE IF matches[n][Len(matches[n])].end < Len(subpatterns[n])
       THEN [status |-> "ValueError"]
       ELSE IF \E k \in DOMAIN all : Bad(all[k])
       THEN LET k == Min({j \in DOMAIN all : Bad(all[j])})
            IN IF all[k].name \notin DOMAIN codes
               THEN [status |-> "EventNameNotFoundError"]
               ELSE [status |-> "ValueError"]
       ELSE [status |-> "ok",
             subpatterns |-> encoded_subpatterns,
             regex |-> Concat([i \in 1..n |->
                          [k \in DOMAIN encoded_subpatterns[i] |->
                              Group(encoded_subpatterns[i][k])]
                          \o (IF i < n THEN <<wildcard_patterns[i]>> ELSE <<>>)])]

\* TraceAnalyzer._encode_event_pattern.  The result is
\*   [status |-> "ok", subpatterns, regex]  the encoded subpatterns and the
\*        regex as a sequence of capturing groups (code)\type and wildcards,
\*   [status |-> "ValueError"]              a pattern-syntax error, or
\*   [status |-> "EventNameNotFoundError"].
EncodeEventPattern(event_pattern, exclusive_wildcard, codes, width) ==
    LET subpatterns == Split(event_pattern)
        matches == [i \in DOMAIN subpatterns |-> ReEventFindIter(subpatterns[i], 1)]
        n == Len(subpatterns)
        all == Concat(matches)
        Bad(m) == m.name \notin DOMAIN codes \/ m.type \notin ValidTypeCodes
        encoded_subpatterns ==
            [i \in DOMAIN matches |->
                [k \in DOMAIN matches[i] |->
                    [code |-> codes[matches[i][k].name], type |-> matches[i][k].type]]]
        wildcard_patterns ==
            CreateWildcardPatterns(encoded_subpatterns, exclusive_wildcard, width)
        Group(t) == [kind |-> "tok", code |-> t.code, type |-> t.type]
    IN IF \E i \in DOMAIN matches : Len(matches[i]) = 0
       THEN [status |-> "ValueError"]
       ELSE IF matches[n][Len(matches[n])].end < Len(subpatterns[n])
       THEN [status |-> "ValueError"]
       ELSE IF \E k \in DOMAIN all : Bad(all[k])
       THEN LET k == Min({j \in DOMAIN all : Bad(all[j])})
            IN IF all[k].name \notin DOMAIN codes
               THEN [status |-> "EventNameNotFoundError"]
               ELSE [status |-> "ValueError"]
       ELSE [status |-> "ok",
             subpatterns |-> encoded_subpatterns,
             regex |-> Concat([i \in 1..n |->
                          [k \in DOMAIN encoded_subpatterns[i] |->
                              Group(encoded_subpatterns[i][k])]
                          \o (IF i < n THEN <<wildcard_patterns[i]>> ELSE <<>>)])]

\* str(n) for n >= 0
RECURSIVE Decimal(_)
Decimal(n) == IF n < 10 THEN <<Digits[n + 1]>> ELSE Decimal(n \div 10) \o <<Digits[(n % 10) + 1]>>

\* "|".join(...)
RECURSIVE JoinBar(_)
JoinBar(ss) ==
    IF ss = <<>> THEN <<>>
    ELSE IF Len(ss) = 1 THEN ss[1]
    ELSE ss[1] \o <<"|">> \o JoinBar(Tail(ss))

\* The text of one element of the regex: (code)\type for a capturing group,
\* (?:(?!e1|e2|...)[a-zA-Z]{width}\W)*? for a wildcard
RegexElementText(el) ==
    IF el.kind = "tok"
    THEN <<"(">> \o el.code \o <<")", "\\", el.type>>
    ELSE <<"(", "?", ":">>
         \o (IF Len(el.excluded) > 0
             THEN <<"(", "?", "!">>
                  \o JoinBar([i \in DOMAIN el.excluded |->
                        el.excluded[i].code \o <<"\\", el.excluded[i].type>>])
                  \o <<")">>
             ELSE <<>>)
         \o <<"[", "a", "-", "z", "A", "-", "Z", "]", "{">> \o Decimal(el.width)
         \o <<"}", "\\", "W", ")", "*", "?">>

\* The string returned by _encode_event_pattern
RegexText(regex) == Concat([i \in DOMAIN regex |-> RegexElementText(regex[i])])

-----------------------------------------------------------------------------
(* Matcher: re.finditer of the compiled pattern on the events string *)

\* A group whose begin marker is not escaped: '(code)+' is one or more
\* repetitions of the code, whatever the type character after it
LiteralAt_UnescapedBegin(code, type, p, s) ==
    /\ p + Len(code) <= Len(s)
    /\ SubSeq(s, p, p + Len(code) - 1) = code
    /\ type # BEGIN => s[p + Len(code)] = type

\* the literal code followed by the literal type character, at position p
LiteralAt(code, type, p, s) ==
    /\ p + Len(code) <= Len(s)
    /\ SubSeq(s, p, p + Len(code) - 1) = code
    /\ s[p + Len(code)] = type

\* A repetition that ignores the lookahead
WildcardStepAt_NoLookahead(wild, p, s) ==
    /\ p + wild.width <= Len(s)
    /\ \A i \in p..(p + wild.width - 1) : IsLetter(s[i])
    /\ ~IsWordChar(s[p + wild.width])

\* one repetition of a wildcard, (?!e1|e2|...)[a-zA-Z]{width}\W, at position p
WildcardStepAt(wild, p, s) ==
    /\ \A i \in DOMAIN wild.excluded :
          ~LiteralAt(wild.excluded[i].code, wild.excluded[i].type, p, s)
    /\ p + wild.width <= Len(s)
    /\ \A i \in p..(p + wild.width - 1) : IsLetter(s[i])
    /\ ~IsWordChar(s[p + wild.width])

NoMatch == [ok |-> FALSE, end |-> 0, groups |-> <<>>, gaps |-> <<>>]

\* The backtracking match of regex[k..] at position p.  A wildcard is lazy:
\* the rest of the pattern is tried first, one more repetition after that.
\* groups are the start positions of the capturing groups, gaps the
\* positions of the repetitions of each wildcard.
RECURSIVE MatchFrom(_, _, _, _)
MatchFrom(regex, k, p, s) ==
    IF k > Len(regex) THEN [ok |-> TRUE, end |-> p, groups |-> <<>>, gaps |-> <<>>]
    ELSE IF regex[k].kind = "tok"
    THEN IF LiteralAt(regex[k].code, regex[k].type, p, s)
         THEN LET r == MatchFrom(regex, k + 1, p + Len(regex[k].code) + 1, s)
              IN IF r.ok THEN [r EXCEPT !.groups = <<p>> \o @] ELSE NoMatch
         ELSE NoMatch
    ELSE LET r0 == MatchFrom(regex, k + 1, p, s)
         IN IF r0.ok THEN [r0 EXCEPT !.gaps = <<<<>>>> \o @]
            ELSE IF WildcardStepAt(regex[k], p, s)
            THEN LET r1 == MatchFrom(regex, k, p + regex[k].width + 1, s)
                 IN IF r1.ok
                    THEN [r1 EXCEPT !.gaps = <<<<p>> \o Head(@)>> \o Tail(@)]
                    ELSE NoMatch
            ELSE NoMatch

\* A scan that goes on one position after the start of a match, so that
\* matches may overlap
RECURSIVE ReFindIter_Overlapping(_, _, _)
ReFindIter_Overlapping(regex, s, pos) ==
    LET starts == {p \in pos..Len(s) : MatchFrom(regex, 1, p, s).ok}
    IN IF starts = {} THEN <<>>
       ELSE LET p == Min(starts)
            IN <<MatchFrom(regex, 1, p, s)>> \o ReFindIter_Overlapping(regex, s, p + 1)

\* re.finditer(regex, s): the leftmost match from pos, then on from its end.
\* The scan goes straight to the first position a match starts at.
RECURSIVE ReFindIter(_, _, _)
ReFindIter(regex, s, pos) ==
    LET starts == {p \in pos..Len(s) : MatchFrom(regex, 1, p, s).ok}
    IN IF starts = {} THEN <<>>
       ELSE LET p == Min(starts)
                r == MatchFrom(regex, 1, p, s)
            IN <<r>> \o ReFindIter(regex, s, IF r.end > p THEN r.end ELSE p + 1)

\* The index divided by the code width alone
MapStringIndexToEvent_ByWidth(event_string_index, width) ==
    (event_string_index - 1) \div width + 1

\* TraceAnalyzer._map_string_index_to_event, for 1-based positions and
\* 1-based event indices
MapStringIndexToEvent(event_string_index, width) ==
    (event_string_index - 1) \div (width + 1) + 1

-----------------------------------------------------------------------------
(* EventChain and the export *)

\* A timestamp is a Python int or a Python float, which is an IEEE 754
\* double.  Such a number v is held exactly, as its sign and the eight
\* digits of base 2^16, least first, of |v| * 2^82.  The doubles next to
\* 1e-9 lie 2^-82 apart, so every double of a magnitude from 2^-30 to 2^31
\* is held, and so are the exact sums and differences of such doubles.
NoDigits == <<0, 0, 0, 0, 0, 0, 0, 0>>

\* The number of the sign neg and the digits mag (0 has no sign)
Number(neg, mag) == [neg |-> neg /\ mag # NoDigits, mag |-> mag]

\* Bit k of the digits a, bit 0 being the least
Bit(a, k) == (a[(k \div 16) + 1] \div Pow(2, k % 16)) % 2

\* The highest bit that is set in the digits a, -1 when there is none
TopBit(a) ==
    IF a = NoDigits THEN -1
    ELSE LET i == CHOOSE i \in DOMAIN a : a[i] # 0 /\ \A j \in DOMAIN a : j > i => a[j] = 0
             b == CHOOSE b \in 0..15 : Pow(2, b) <= a[i] /\ a[i] < 2 * Pow(2, b)
         IN 16 * (i - 1) + b

\* The digits of 2^p
DigitsOfPow2(p) == [i \in DOMAIN NoDigits |-> IF i = (p \div 16) + 1 THEN Pow(2, p % 16) ELSE 0]

\* The digits of a + b, from digit i on with the carry of the digits before
RECURSIVE DigitsAdd(_, _, _, _)
DigitsAdd(a, b, i, carry) ==
    IF i > Len(a) THEN <<>>
    ELSE LET s == a[i] + b[i] + carry
         IN <<s % 65536>> \o DigitsAdd(a, b, i + 1, s \div 65536)

\* The digits of a - b for a >= b, from digit i on with the borrow of the
\* digits before
RECURSIVE DigitsSub(_, _, _, _)
DigitsSub(a, b, i, borrow) ==
    IF i > Len(a) THEN <<>>
    ELSE LET s == a[i] - b[i] - borrow
         IN <<IF s < 0 THEN s + 65536 ELSE s>>
            \o DigitsSub(a, b, i + 1, IF s < 0 THEN 1 ELSE 0)

\* The digits of a * c for a factor c of up to 2^14, from digit i on
RECURSIVE DigitsTimes(_, _, _, _)
DigitsTimes(a, c, i, carry) ==
    IF i > Len(a) THEN <<>>
    ELSE LET s == a[i] * c + carry
         IN <<s % 65536>> \o DigitsTimes(a, c, i + 1, s \div 65536)

\* a < b on digits
DigitsLess(a, b) ==
    \E i \in DOMAIN a : a[i] < b[i] /\ \A j \in DOMAIN a : j > i => a[j] = b[j]

\* The digits a rounded to a double: to the 53 bits from the highest bit
\* that is set, to the nearest and, half way between two, to the one whose
\* last bit is 0 (the rounding of every float operation)
RoundToDouble(a) ==
    LET p == TopBit(a) - 52
        kept == [i \in DOMAIN a |->
                    IF 16 * i <= p THEN 0
                    ELSE IF 16 * (i - 1) >= p THEN a[i]
                    ELSE (a[i] \div Pow(2, p - 16 * (i - 1))) * Pow(2, p - 16 * (i - 1))]
        half == Bit(a, p - 1) = 1
        beyond == \E k \in 0..(p - 2) : Bit(a, k) = 1
        odd == Bit(a, p) = 1
    IN IF p <= 0 THEN a
       ELSE IF half /\ (beyond \/ odd) THEN DigitsAdd(kept, DigitsOfPow2(p), 1, 0)
       ELSE kept

\* -x
Negated(x) == Number(~x.neg, x.mag)

\* x + y, exactly
ExactSum(x, y) ==
    IF x.neg = y.neg THEN Number(x.neg, DigitsAdd(x.mag, y.mag, 1, 0))
    ELSE IF DigitsLess(x.mag, y.mag) THEN Number(y.neg, DigitsSub(y.mag, x.mag, 1, 0))
    ELSE Number(x.neg, DigitsSub(x.mag, y.mag, 1, 0))

\* The number of the int n, of a magnitude below 2^31: the digits of
\* |n| * 2^82
NumberOfInt(n) ==
    LET abs == IF n < 0 THEN -n ELSE n
        low == (abs % 65536) * 4
        high == (abs \div 65536) * 4 + low \div 65536
    IN Number(n < 0, <<0, 0, 0, 0, 0, low % 65536, high % 65536, high \div 65536>>)

\* The float 1e-9, which is 0x112E0BE826D695 * 2^-82
Float1e9th == Number(FALSE, <<54933, 59430, 11787, 17, 0, 0, 0, 0>>)

\* x - y in float arithmetic: the double nearest to the difference (an int
\* below 2^53 is converted to the float of its value)
FloatSub(x, y) ==
    LET d == ExactSum(x, Negated(y))
    IN Number(d.neg, RoundToDouble(d.mag))

\* x * c in float arithmetic, for a whole factor c of up to 2^14
FloatTimes(x, c) == Number(x.neg, RoundToDouble(DigitsTimes(x.mag, c, 1, 0)))

\* The int nearest to the number x (for a number half way between two
\* ints, the one further from 0)
NearestInt(x) ==
    LET n == x.mag[6] \div 4 + x.mag[7] * 16384 + x.mag[8] * 1073741824 + Bit(x.mag, 81)
    IN IF x.neg THEN -n ELSE n

\* A number as the value of the attribute k of a record: the int nearest to
\* it under k and, when the number is not that int, the exact rest under
\* k_frac
Attribute(k, k_frac, x) ==
    LET frac == ExactSum(x, NumberOfInt(-NearestInt(x)))
    IN (k :> NearestInt(x)) @@ (IF frac.mag = NoDigits THEN <<>> ELSE (k_frac :> frac))

\* The timestamp of an event that has one: the int of the field ts and, for
\* a float that is no int, the rest in the field ts_frac (only add_flow
\* makes such timestamps)
TsOf(e) ==
    IF "ts_frac" \in DOMAIN e THEN ExactSum(NumberOfInt(e.ts), e.ts_frac)
    ELSE NumberOfInt(e.ts)

\* a.ts < b.ts on the timestamps of two events
TsLess(e1, e2) ==
    IF "ts_frac" \in DOMAIN e1 \/ "ts_frac" \in DOMAIN e2
    THEN ExactSum(TsOf(e1), Negated(TsOf(e2))).neg
    ELSE e1.ts < e2.ts

\* EventChain.ts: the timestamp of the first event of the chain
ChainTs(chain) == TsOf(chain.events[1])

\* EventChain.begin_event / EventChain.end_event
ChainBeginEvent(chain) == chain.events[1]
ChainEndEvent(chain) == chain.events[Len(chain.events)]

\* EventChain.dur: the timestamp of the last event minus that of the first
\* (the difference of two ints is an int and exact, like that of their
\* floats)
ChainDur(chain) == FloatSub(TsOf(chain.events[Len(chain.events)]), TsOf(chain.events[1]))

\* _validate_property_access: AttributeError on a chain without events
ValidatePropertyAccess(chain) ==
    IF Len(chain.events) = 0 THEN "AttributeError" ELSE "ok"

\* Properties that fall back to a default on a chain without events
ReadProperty_DefaultWhenEmpty(chain, prop) ==
    LET first == chain.events[1]
        last == chain.events[Len(chain.events)]
        Returned(v) == [outcome |-> "return", value |-> v]
        Timed(x) == [outcome |-> "return"] @@ Attribute("value", "value_frac", x)
        Raised == [outcome |-> "AttributeError", value |-> <<>>]
    IN IF Len(chain.events) = 0
       THEN Returned(IF prop \in {"ts", "dur"} THEN 0 ELSE <<>>)
       ELSE CASE prop = "ts" -> IF "ts" \in DOMAIN first
                                THEN Timed(ChainTs(chain))
                                ELSE Raised
              [] prop = "dur" -> IF "ts" \in DOMAIN first /\ "ts" \in DOMAIN last
                                 THEN Timed(ChainDur(chain))
                                 ELSE Raised
              [] prop = "begin_event" -> Returned(ChainBeginEvent(chain))
              [] prop = "end_event" -> Returned(ChainEndEvent(chain))

\* The properties ts, dur, begin_event and end_event of an EventChain, each
\* wrapped by _validate_property_access: the value returned, or the
\* AttributeError raised by the wrapper or by the read of the ts of an event
\* that was built without a timestamp (dur reads the ts of the last event
\* first)
ReadProperty(chain, prop) ==
    LET first == chain.events[1]
        last == chain.events[Len(chain.events)]
        Returned(v) == [outcome |-> "return", value |-> v]
        Timed(x) == [outcome |-> "return"] @@ Attribute("value", "value_frac", x)
        Raised == [outcome |-> "AttributeError", value |-> <<>>]
    IN IF ValidatePropertyAccess(chain) = "AttributeError" THEN Raised
       ELSE CASE prop = "ts" -> IF "ts" \in DOMAIN first
                                THEN Timed(ChainTs(chain))
                                ELSE Raised
              [] prop = "dur" -> IF "ts" \in DOMAIN first /\ "ts" \in DOMAIN last
                                 THEN Timed(ChainDur(chain))
                                 ELSE Raised
              [] prop = "begin_event" -> Returned(ChainBeginEvent(chain))
              [] prop = "end_event" -> Returned(ChainEndEvent(chain))

\* The key lambda ec: ec.ts raises AttributeError on some chain of the list:
\* the chain has no events, or its first event has no timestamp
SortKeyRaises(ids, chs) ==
    \E k \in DOMAIN ids :
        \/ ValidatePropertyAccess(chs[ids[k]]) = "AttributeError"
        \/ "ts" \notin DOMAIN chs[ids[k]].events[1]

\* A stable sort of chain ids by the timestamp of the first event
RECURSIVE StableSortByTs(_, _)
StableSortByTs(ids, chs) ==
    IF ids = <<>> THEN <<>>
    ELSE LET n == Len(ids)
             x == ids[n]
             sorted == StableSortByTs(SubSeq(ids, 1, n - 1), chs)
             later == {i \in DOMAIN sorted :
                          TsLess(chs[x].events[1], chs[sorted[i]].events[1])}
             at == IF later = {} THEN n ELSE Min(later)
         IN SubSeq(sorted, 1, at - 1) \o <<x>> \o SubSeq(sorted, at, n - 1)

\* The list left as the loop appended to it
SortByTs_Unsorted(ids, chs) ==
    [outcome |-> IF SortKeyRaises(ids, chs) THEN "AttributeError" ELSE "return",
     event_chains |-> ids]

\* list.sort(key=lambda ec: ec.ts): the key is read on every chain of the
\* list before anything is moved; when a read raises, the list stays as it
\* was and the AttributeError leaves sort
SortByTs(ids, chs) ==
    IF SortKeyRaises(ids, chs)
    THEN [outcome |-> "AttributeError", event_chains |-> ids]
    ELSE [outcome |-> "return", event_chains |-> StableSortByTs(ids, chs)]

\* _TEF_MANDATORY_PROPS: the phase of an event type (an instant event has
\* the scope 'g' as well, see TefEventDict)
TefPhase(type) ==
    CASE type = "B" -> "B"
      [] type = "E" -> "E"
      [] type = "C" -> "C"
      [] type = "I" -> "i"
      [] type = "M" -> "M"
      [] type = "s" -> "s"
      [] type = "f" -> "f"

\* export.to_tef_event_dict with time_unit 'ms': the public attributes of the
\* event (name, args, and ts, pid, tid when set, id of a flow event) and the
\* phase of its type.  The timestamp is multiplied by the float 1e3: the
\* product of an int of up to 2^31 is exact, that of a float is rounded.
TefEventDict(e) ==
    LET Attr(k, v) == IF k \in DOMAIN e THEN (k :> v) ELSE <<>>
        ts == IF "ts" \notin DOMAIN e THEN <<>>
              ELSE IF "ts_frac" \in DOMAIN e
              THEN Attribute("ts", "ts_frac", FloatTimes(TsOf(e), 1000))
              ELSE [ts |-> e.ts * 1000]
    IN ts @@ Attr("pid", e.pid) @@ Attr("tid", e.tid)
       @@ (IF "flow_id" \in DOMAIN e THEN [id |-> e.flow_id] ELSE <<>>)
       @@ (IF e.type = "I" THEN [s |-> "g"] ELSE <<>>)
       @@ [name |-> e.name, args |-> e.args, ph |-> TefPhase(e.type)]

\* Metadata events of the process names only
MetadataEvents_ProcessNamesOnly(pnames, tnames) ==
    [i \in DOMAIN pnames |->
        [name |-> <<"process_name">>, type |-> "M", pid |-> pnames[i].pid,
         args |-> [name |-> pnames[i].name]]]

\* Trace.metadata_events: process names, then thread names
MetadataEvents(pnames, tnames) ==
    [i \in DOMAIN pnames |->
        [name |-> <<"process_name">>, type |-> "M", pid |-> pnames[i].pid,
         args |-> [name |-> pnames[i].name]]]
    \o [i \in DOMAIN tnames |->
        [name |-> <<"thread_name">>, type |-> "M", pid |-> tnames[i].pid,
         tid |-> tnames[i].tid, args |-> [name |-> tnames[i].name]]]

\* as_event_pair raises AttributeError: the chain has no events, or its
\* first or its last event has no timestamp
AsEventPairRaises(chain) ==
    \/ ValidatePropertyAccess(chain) = "AttributeError"
    \/ "ts" \notin DOMAIN ChainBeginEvent(chain)
    \/ "ts" \notin DOMAIN ChainEndEvent(chain)

\* EventChain.as_event_pair, with the pid set by TraceAnalyzer.to_tef_json
AsEventPair(chain, pid) ==
    LET Frac(e) == IF "ts_frac" \in DOMAIN e THEN [ts_frac |-> e.ts_frac] ELSE <<>>
    IN <<[name |-> chain.name, type |-> "B", ts |-> ChainBeginEvent(chain).ts,
          pid |-> pid, args |-> <<>>] @@ Frac(ChainBeginEvent(chain)),
         [name |-> chain.name, type |-> "E", ts |-> ChainEndEvent(chain).ts,
          pid |-> pid, args |-> <<>>] @@ Frac(ChainEndEvent(chain))>>

\* An export that puts the metadata events after the event chains
TraceEventsOf_MetadataLast(evs, pnames, tnames, ids, chs, pid) ==
    LET event_chain_trace == Concat([i \in DOMAIN ids |-> AsEventPair(chs[ids[i]], pid)])
        all == evs \o event_chain_trace \o MetadataEvents(pnames, tnames)
    IN [i \in DOMAIN all |-> TefEventDict(all[i])]

\* TraceAnalyzer.to_tef_json: the traceEvents list of the exported dict
TraceEventsOf(evs, pnames, tnames, ids, chs, pid) ==
    LET event_chain_trace == Concat([i \in DOMAIN ids |-> AsEventPair(chs[ids[i]], pid)])
        all == evs \o MetadataEvents(pnames, tnames) \o event_chain_trace
    IN [i \in DOMAIN all |-> TefEventDict(all[i])]

-----------------------------------------------------------------------------
(* Matching *)

\* An index that is never consulted
IsKnownKey_Never(index, key) == FALSE

\* (begin_event, end_event) in self._event_chain_index
IsKnownKey(index, key) == key \in DOMAIN index

\* The slice taken without its last event
NewEventChain_WithoutLast(name, evs, first_event_index, last_event_index) ==
    [name |-> name, events |-> SubSeq(evs, first_event_index, last_event_index - 1),
     flow_ids |-> <<>>]

\* EventChain(name) followed by add_events(self.trace.events[first : last + 1])
NewEventChain(name, evs, first_event_index, last_event_index) ==
    [name |-> name, events |-> SubSeq(evs, first_event_index, last_event_index),
     flow_ids |-> <<>>]

\* A known chain that keeps its name
Renamed_KeepsName(chs, id, name) == chs

\* event_chain.name = event_chain_name, on the chain object both the list and
\* the index hold
Renamed(chs, id, name) == [chs EXCEPT ![id].name = name]

\* The loop of TraceAnalyzer.match over the regex matches ms: st carries
\* chains, event_chains, _event_chain_index and matched_event_chains.
RECURSIVE ProcessMatches(_, _, _, _, _)
ProcessMatches(ms, st, event_chain_name, evs, width) ==
    IF ms = <<>> THEN st
    ELSE LET m == Head(ms)
             first_event_index == MapStringIndexToEvent(m.groups[1], width)
             last_event_index == MapStringIndexToEvent(m.groups[Len(m.groups)], width)
             key == <<evs[first_event_index].id, evs[last_event_index].id>>
             new_id == Len(st.chains) + 1
             st1 == IF IsKnownKey(st.index, key)
                    THEN [st EXCEPT !.chains = Renamed(@, st.index[key], event_chain_name),
                                    !.matched = Append(@, st.index[key])]
                    ELSE [chains |-> Append(st.chains,
                                       NewEventChain(event_chain_name, evs,
                                                     first_event_index, last_event_index)),
                          event_chains |-> Append(st.event_chains, new_id),
                          index |-> (key :> new_id) @@ st.index,
                          matched |-> Append(st.matched, new_id)]
         IN ProcessMatches(Tail(ms), st1, event_chain_name, evs, width)

\* A call and its outcome: "return" with the returned chains (match) or the
\* exported traceEvents (to_tef_json), or the exception raised
CallRecord(op, pattern, name, exclusive, outcome, returned, tef) ==
    [op |-> op, pattern |-> pattern, name |-> name, exclusive |-> exclusive,
     outcome |-> outcome, chains |-> returned, tef |-> tef]

\* No handler: the exception leaves match
CaughtByMatch_Never(status) == FALSE

\* except _EventNameNotFoundError: return []
CaughtByMatch(status) == status = "EventNameNotFoundError"

\* A match that drops the event chains when the pattern does not compile
Match_DropsChainsOnError(event_pattern, event_chain_name, exclusive_wildcard) ==
    LET enc == EncodeEventPattern(event_pattern, exclusive_wildcard,
                                  event_name_codes, n_codes)
        Called(outcome, returned) ==
            Append(history, CallRecord("match", event_pattern, event_chain_name,
                                       exclusive_wildcard, outcome, returned, <<>>))
    IN /\ UNCHANGED <<events, process_names, thread_names, n_codes,
                      event_name_codes, events_string, wc, flow_ids>>
       /\ IF enc.status # "ok"
          THEN /\ history' = IF CaughtByMatch(enc.status)
                             THEN Called("return", <<>>)
                             ELSE Called(enc.status, <<>>)
               /\ chains' = <<>>
               /\ event_chains' = <<>>
               /\ event_chain_index' = <<>>
          ELSE LET st == ProcessMatches(ReFindIter(enc.regex, events_string, 1),
                             [chains |-> chains, event_chains |-> event_chains,
                              index |-> event_chain_index, matched |-> <<>>],
                             event_chain_name, events, n_codes)
                   sorted == SortByTs(st.event_chains, st.chains)
               IN /\ chains' = st.chains
                  /\ event_chains' = sorted.event_chains
                  /\ event_chain_index' = st.index
                  /\ history' = IF sorted.outcome = "return"
                                 THEN Called("return", st.matched)
                                 ELSE Called(sorted.outcome, <<>>)

\* TraceAnalyzer.match(event_pattern, event_chain_name, exclusive_wildcard).
\* The chains of the matches are in event_chains and in the index when the
\* final sort runs: an AttributeError of the sort leaves match after them.
Match(event_pattern, event_chain_name, exclusive_wildcard) ==
    LET enc == EncodeEventPattern(event_pattern, exclusive_wildcard,
                                  event_name_codes, n_codes)
        Called(outcome, returned) ==
            Append(history, CallRecord("match", event_pattern, event_chain_name,
                                       exclusive_wildcard, outcome, returned, <<>>))
    IN /\ UNCHANGED <<events, process_names, thread_names, n_codes,
                      event_name_codes, events_string, wc, flow_ids>>
       /\ IF enc.status # "ok"
          THEN /\ history' = IF CaughtByMatch(enc.status)
                             THEN Called("return", <<>>)
                             ELSE Called(enc.status, <<>>)
               /\ UNCHANGED <<chains, event_chains, event_chain_index>>
          ELSE LET st == ProcessMatches(ReFindIter(enc.regex, events_string, 1),
                             [chains |-> chains, event_chains |-> event_chains,
                              index |-> event_chain_index, matched |-> <<>>],
                             event_chain_name, events, n_codes)
                   sorted == SortByTs(st.event_chains, st.chains)
               IN /\ chains' = st.chains
                  /\ event_chains' = sorted.event_chains
                  /\ event_chain_index' = st.index
                  /\ history' = IF sorted.outcome = "return"
                                 THEN Called("return", st.matched)
                                 ELSE Called(sorted.outcome, <<>>)

\* TraceAnalyzer.to_tef_json(event_chain_pid) without a file: the exported
\* traceEvents, or the AttributeError of as_event_pair on a chain whose
\* first or last event has no timestamp
ToTefJson(event_chain_pid) ==
    /\ history' = Append(history,
                    [pid |-> event_chain_pid]
                    @@ IF \E k \in DOMAIN event_chains :
                             AsEventPairRaises(chains[event_chains[k]])
                       THEN CallRecord("to_tef_json", <<>>, <<>>, TRUE,
                                       "AttributeError", <<>>, <<>>)
                       ELSE CallRecord("to_tef_json", <<>>, <<>>, TRUE, "return", <<>>,
                                  TraceEventsOf(events, process_names, thread_names,
                                                event_chains, chains, event_chain_pid)))
    /\ UNCHANGED <<events, process_names, thread_names, n_codes, event_name_codes,
                   events_string, chains, event_chains, event_chain_index, wc, flow_ids>>

\* A call of _create_wildcard_patterns on the subpatterns drawn by Init
ApplyCreateWildcardPatterns ==
    /\ ~wc.done
    /\ wc' = [wc EXCEPT !.done = TRUE,
                        !.out = CreateWildcardPatterns(wc.subpatterns, wc.exclusive,
                                                        n_codes)]
    /\ UNCHANGED <<events, process_names, thread_names, n_codes, event_name_codes,
                   events_string, chains, event_chains, event_chain_index, history, flow_ids>>

-----------------------------------------------------------------------------
(* Inputs *)

\* A TraceEvent built as in the tests: a name and a timestamp, no pid, no tid
\* and no further attributes.  The field id is the identity of the event
\* object (its place in the trace it was added to); it is no attribute of
\* the event.
Event(id, name, type, ts) ==
    [id |-> id, name |-> name, type |-> type, ts |-> ts, args |-> <<>>]

\* A TraceEvent built with a name alone: ts is None and the attribute ts is
\* not set
EventWithoutTs(id, name, type) ==
    [id |-> id, name |-> name, type |-> type, args |-> <<>>]

\* TraceEventCounter(name, ts, value): pid and tid default to 0, and the
\* value is kept in args under the name of the event
TraceEventCounter(id, name, ts, value) ==
    [id |-> id, name |-> name, type |-> "C", ts |-> ts, pid |-> 0, tid |-> 0,
     args |-> (name :> value)]

\* TraceEventFlowStart(name, ts, id_) and TraceEventFlowEnd(name, ts, id_):
\* the attribute id of the event is the field flow_id
TraceEventFlow(id, name, type, ts, id_) ==
    [id |-> id, name |-> name, type |-> type, ts |-> ts, args |-> <<>>,
     flow_id |-> id_]

\* All traces of n events over the given names, types and timestamps
TracesOfLen(n, names, types, tss) ==
    {[i \in 1..n |-> Event(i, f[i][1], f[i][2], f[i][3])] :
        f \in [1..n -> names \X types \X tss]}

\* All traces of n events over the given names and types, the i-th event
\* with timestamp i - 1 (tests/utils.py setup_trace)
ClockedTracesOfLen(n, names, types) ==
    {[i \in 1..n |-> Event(i, f[i][1], f[i][2], i - 1)] :
        f \in [1..n -> names \X types]}

\* The state of a TraceAnalyzer right after __init__ on a trace of valid names
Constructed(evs, pnames, tnames) ==
    /\ events = evs
    /\ process_names = pnames
    /\ thread_names = tnames
    /\ flow_ids = <<>>
    /\ event_name_codes = CreateEventNameCodes(evs)
    /\ n_codes = CodeWidth(Cardinality({evs[i].name : i \in DOMAIN evs}))
    /\ events_string = CreateEventsString(evs, CreateEventNameCodes(evs))
    /\ chains = <<>>
    /\ event_chains = <<>>
    /\ event_chain_index = <<>>
    /\ history = <<>>

NoWildcardCall == [subpatterns |-> <<>>, exclusive |-> TRUE, out |-> <<>>, done |-> TRUE]

TraceNames == {<<"a">>, <<"b">>}
ChainNames == {<<"n", "1">>, <<"n", "2">>}

\* The patterns of a session: regions that nest, overlap and coincide, a name
\* that is not in the trace, and two malformed patterns
SessionPatterns ==
    {<<"a", "+", "*", "a", "-">>,
     <<"a", "+", "*", "b", "+">>,
     <<"a", "+", "b", "+">>,
     <<"b", "+">>,
     <<"c", "+", "*", "a", "-">>,
     <<"a", "+", "*">>,
     <<"a", "+", "b", "$">>}

\* All traces of n begins and ends of b, each built with a timestamp or
\* without one (ts is an optional argument of TraceEvent)
UntimedTracesOfLen(n) ==
    {[i \in 1..n |-> IF f[i][3] THEN Event(i, <<"b">>, f[i][1], f[i][2])
                     ELSE EventWithoutTs(i, <<"b">>, f[i][1])] :
        f \in [1..n -> {"B", "E"} \X (0..MaxTs) \X BOOLEAN]}

\* A session: an analyzer on any small trace, then up to MaxCalls calls
Init ==
    /\ \E n \in 0..MaxEvents :
         \E evs \in TracesOfLen(n, TraceNames, {"B", "E"}, 0..MaxTs)
                       \cup UntimedTracesOfLen(n) :
            Constructed(evs, <<>>, <<>>)
    /\ wc = NoWildcardCall

Next ==
    /\ Len(history) < MaxCalls
    /\ \/ \E p \in SessionPatterns, nm \in ChainNames, x \in BOOLEAN : Match(p, nm, x)
       \/ ToTefJson(1000)

Spec == Init /\ [][Next]_vars

-----------------------------------------------------------------------------
(* One match on a fresh analyzer, over all short patterns of well-formed tokens *)

MatchTokens == {<<nm[1], t>> : nm \in TraceNames, t \in {BEGIN, END}}

\* The patterns of k tokens with a wildcard after the tokens in stars
PatternOf(toks, stars) ==
    Concat([i \in DOMAIN toks |->
              toks[i] \o (IF i \in stars THEN <<WILDCARD>> ELSE <<>>)])

\* Patterns of three tokens: the pattern of the tests (x+*x-y+), two
\* wildcards (x+*y+*x-) and a repeated end after the wildcard (x-*y-y-)
ThreeTokenPatterns ==
    UNION {{PatternOf(<<<<x[1], BEGIN>>, <<x[1], END>>, <<y[1], BEGIN>>>>, {1}),
            PatternOf(<<<<x[1], BEGIN>>, <<y[1], BEGIN>>, <<x[1], END>>>>, {1, 2}),
            PatternOf(<<<<x[1], END>>, <<y[1], END>>, <<y[1], END>>>>, {1})} :
           x \in TraceNames, y \in TraceNames}

MatchPatterns ==
    UNION {{PatternOf(toks, stars) : toks \in [1..k -> MatchTokens],
                                     stars \in SUBSET (1..(k - 1))} :
           k \in 1..MaxTokens}
    \cup ThreeTokenPatterns

InitMatch ==
    /\ \E n \in 0..MaxMatchEvents :
         \E evs \in ClockedTracesOfLen(n, TraceNames, {"B", "E"}) :
            Constructed(evs, <<>>, <<>>)
    /\ wc = NoWildcardCall

NextMatch ==
    /\ Len(history) < 1
    /\ \E p \in MatchPatterns, x \in BOOLEAN : Match(p, <<"n", "1">>, x)

SpecMatch == InitMatch /\ [][NextMatch]_vars

-----------------------------------------------------------------------------
(* An analyzer on a trace without events, over all short pattern strings *)

PatternChars == {"a", "+", "*", "$"}

StringsUpTo(n, chars) == UNION {[1..k -> chars] : k \in 0..n}

InitEmpty ==
    /\ \E pnames \in {<<>>, <<[pid |-> 1, name |-> <<"p">>]>>},
          tnames \in {<<>>, <<[pid |-> 1, tid |-> 1, name |-> <<"t">>]>>} :
            Constructed(<<>>, pnames, tnames)
    /\ wc = NoWildcardCall

NextEmpty ==
    /\ Len(history) < MaxCalls
    /\ \/ \E p \in StringsUpTo(MaxPatternLen, PatternChars), x \in BOOLEAN :
             Match(p, <<"n", "1">>, x)
       \/ ToTefJson(1000)

SpecEmpty == InitEmpty /\ [][NextEmpty]_vars

-----------------------------------------------------------------------------
(* _create_wildcard_patterns on all short lists of encoded subpatterns *)

WcTrace == <<Event(1, <<"a">>, "B", 0), Event(2, <<"b">>, "B", 1)>>

WcTokens == {[code |-> <<"A">>, type |-> BEGIN], [code |-> <<"A">>, type |-> END],
             [code |-> <<"B">>, type |-> BEGIN], [code |-> <<"B">>, type |-> END],
             [code |-> <<"A">>, type |-> event_type_default_code]}

\* toks[from..] cut into subpatterns after the positions in cuts, as split
\* cuts a pattern at its wildcards
RECURSIVE Pieces(_, _, _)
Pieces(toks, cuts, from) ==
    IF from > Len(toks) THEN <<>>
    ELSE LET to == Min({c \in cuts : c >= from} \cup {Len(toks)})
         IN <<SubSeq(toks, from, to)>> \o Pieces(toks, cuts, to + 1)

\* The encoded subpatterns of the patterns of up to MaxWcTokens tokens
WcSubpatterns ==
    UNION {{Pieces(toks, cuts, 1) : toks \in [1..n -> WcTokens],
                                    cuts \in SUBSET (1..(n - 1))} :
           n \in 1..MaxWcTokens}

InitWild ==
    /\ Constructed(WcTrace, <<>>, <<>>)
    /\ \E sp \in WcSubpatterns, x \in BOOLEAN :
          wc = [subpatterns |-> sp, exclusive |-> x, out |-> <<>>, done |-> FALSE]

NextWild == ApplyCreateWildcardPatterns

SpecWild == InitWild /\ [][NextWild]_vars

-----------------------------------------------------------------------------
(* The construction of an analyzer on the traces of the tests, and one call
   that reads what was constructed *)

\* The name f'{prefix}{i:03}' of tests/utils.py for the prefix 'e': the
\* decimal digits of i, with zeros in front of fewer than three
EventName(i) ==
    <<"e">> \o (IF i < 10 THEN <<"0", "0">> ELSE IF i < 100 THEN <<"0">> ELSE <<>>)
    \o Decimal(i)

\* The events of the types without a type code of their own, all named
\* event999: instant, counter, metadata, flow start and flow end, each as
\* its constructor builds it (with timestamp 1, but for the metadata event,
\* whose constructor takes none)
OtherEvents(id) ==
    <<Event(id, EventName(999), "I", 1),
      TraceEventCounter(id + 1, EventName(999), 1, 0),
      EventWithoutTs(id + 2, EventName(999), "M"),
      TraceEventFlow(id + 3, EventName(999), "s", 1, 0),
      TraceEventFlow(id + 4, EventName(999), "f", 1, 0)>>

\* tests/utils.py setup_trace(n_events): the begins of event 0..n-1, then
\* their ends in reverse order, the timestamps counting up
SetupTrace(n_events) ==
    [i \in 1..(2 * n_events) |->
        IF i <= n_events THEN Event(i, EventName(i - 1), "B", i - 1)
        ELSE Event(i, EventName(2 * n_events - i), "E", i - 1)]

\* The trace of test_event_string: setup_trace followed by one instant
\* event named event999
SetupTraceWithInstant(n_events) ==
    Append(SetupTrace(n_events), Event(2 * n_events + 1, EventName(999), "I", 1))

\* setup_trace followed by one event of every other type
SetupTraceWithOthers(n_events) ==
    SetupTrace(n_events) \o OtherEvents(2 * n_events + 1)

\* A trace that no analyzer has been built on yet
NotConstructed(evs) ==
    /\ events = evs
    /\ process_names = <<>>
    /\ thread_names = <<>>
    /\ flow_ids = <<>>
    /\ event_name_codes = <<>>
    /\ n_codes = 0
    /\ events_string = <<>>
    /\ chains = <<>>
    /\ event_chains = <<>>
    /\ event_chain_index = <<>>
    /\ history = <<>>

\* TraceAnalyzer.__init__(trace).  _create_event_name_codes validates the
\* sorted distinct names first (there is nothing to validate in a trace
\* without events); when the validation raises, no analyzer comes to exist.
Construct ==
    /\ history = <<>>
    /\ IF ValidateEventName(SortedStrings({events[i].name : i \in DOMAIN events}))
          = "ValueError"
       THEN /\ history' = <<[op |-> "__init__", outcome |-> "ValueError"]>>
            /\ UNCHANGED <<n_codes, event_name_codes, events_string, chains,
                           event_chains, event_chain_index, flow_ids>>
       ELSE /\ event_name_codes' = CreateEventNameCodes(events)
            /\ n_codes' = CodeWidth(Cardinality({events[i].name : i \in DOMAIN events}))
            /\ events_string' = CreateEventsString(events, CreateEventNameCodes(events))
            /\ chains' = <<>>
            /\ event_chains' = <<>>
            /\ event_chain_index' = <<>>
            /\ history' = <<[op |-> "__init__", outcome |-> "return"]>>
    /\ UNCHANGED <<events, process_names, thread_names, wc, flow_ids>>

\* A call of _map_string_index_to_event(event_string_index), 0-based as in
\* the code, returning (event_index, trace.events[event_index])
MapStringIndexToEventCall(event_string_index) ==
    LET event_index == MapStringIndexToEvent(event_string_index + 1, n_codes) - 1
    IN /\ history' = Append(history,
                       [op |-> "_map_string_index_to_event",
                        index |-> event_string_index, outcome |-> "return",
                        event_index |-> event_index,
                        event |-> events[event_index + 1]])
       /\ UNCHANGED <<events, process_names, thread_names, n_codes, event_name_codes,
                      events_string, chains, event_chains, event_chain_index, wc, flow_ids>>

InitCodes ==
    /\ \E n \in 1..MaxNames :
         \/ NotConstructed(SetupTrace(n))
         \/ NotConstructed(SetupTraceWithInstant(n))
         \/ NotConstructed(SetupTraceWithOthers(n))
    /\ wc = NoWildcardCall

\* The construction, then one call
NextCodes ==
    \/ Construct
    \/ /\ Len(history) = 1
       /\ \/ \E i \in 0..(Len(events_string) - 1) : MapStringIndexToEventCall(i)
          \/ ToTefJson(1000)

SpecCodes == InitCodes /\ [][NextCodes]_vars

-----------------------------------------------------------------------------
(* The construction of an analyzer on the traces of the tests, then calls of
   match and of to_tef_json in any order *)

\* The numbers of names of the traces: codes of one letter (up to CODE_BASE
\* names) and of two
SequenceNames == {1, 2, CODE_BASE, CODE_BASE + 1}

\* The patterns matched on setup_trace(n) (which may be followed by events
\* of other types): the region of its last name, the region of the name
\* before (around the former, or the same for one name), the begins of its
\* first two names (next to each other, or a name that is not in the trace
\* for one name), the single end of its first name and a malformed pattern
SequencePatterns(evs) ==
    LET n == Cardinality({i \in DOMAIN evs : evs[i].type = "B"})
        Region(nm) == nm \o <<BEGIN, WILDCARD>> \o nm \o <<END>>
    IN {Region(EventName(n - 1)),
        Region(EventName(IF n > 1 THEN n - 2 ELSE 0)),
        EventName(0) \o <<BEGIN>> \o EventName(1) \o <<BEGIN>>,
        EventName(0) \o <<END>>,
        EventName(0) \o <<BEGIN, WILDCARD>>}

InitSequence ==
    /\ \E n \in SequenceNames :
         \/ NotConstructed(SetupTrace(n))
         \/ NotConstructed(SetupTraceWithOthers(n))
    /\ wc = NoWildcardCall

\* The construction, then up to MaxSequenceCalls calls
NextSequence ==
    \/ Construct
    \/ /\ history # <<>>
       /\ Len(history) < 1 + MaxSequenceCalls
       /\ \/ \E p \in SequencePatterns(events), x \in BOOLEAN :
                Match(p, <<"n", "1">>, x)
          \/ ToTefJson(1000)

SpecSequence == InitSequence /\ [][NextSequence]_vars

-----------------------------------------------------------------------------
(* The compilation of all short pattern strings on a trace with events *)

\* The characters of the patterns: the name 'a' of the trace, a letter that
\* is in no name of the trace, a marker, the wildcard and a character that
\* is no marker
SyntaxChars == {"a", "c", "+", "*", "$"}

\* A call of _encode_event_pattern(event_pattern, exclusive_wildcard): the
\* compiled regex as text, or the exception raised
EncodeEventPatternCall(event_pattern, exclusive_wildcard) ==
    LET enc == EncodeEventPattern(event_pattern, exclusive_wildcard,
                                  event_name_codes, n_codes)
    IN /\ history' = Append(history,
                       [op |-> "_encode_event_pattern", pattern |-> event_pattern,
                        exclusive |-> exclusive_wildcard,
                        outcome |-> IF enc.status = "ok" THEN "return" ELSE enc.status,
                        encoded |-> IF enc.status = "ok" THEN RegexText(enc.regex)
                                    ELSE <<>>])
       /\ UNCHANGED <<events, process_names, thread_names, n_codes, event_name_codes,
                      events_string, chains, event_chains, event_chain_index, wc, flow_ids>>

\* A trace without events, or SyntaxTraceLen events named 'a'
InitSyntax ==
    /\ \E n \in {0, SyntaxTraceLen} :
         \E evs \in ClockedTracesOfLen(n, {<<"a">>}, {"B", "E"}) :
            Constructed(evs, <<>>, <<>>)
    /\ wc = NoWildcardCall

\* One call on a fresh analyzer: a compilation or a match
NextSyntax ==
    /\ Len(history) < 1
    /\ \E p \in StringsUpTo(MaxSyntaxLen, SyntaxChars), x \in BOOLEAN :
          \/ EncodeEventPatternCall(p, x)
          \/ Match(p, <<"n", "1">>, x)

SpecSyntax == InitSyntax /\ [][NextSyntax]_vars

-----------------------------------------------------------------------------
(* The construction of an analyzer on traces of arbitrary short names, and
   one call that refers to a name of the trace *)

\* The characters of the names: a letter, a letter beyond ASCII, three
\* characters that are neither word characters nor reserved, and the four
\* reserved characters
NameChars == {"a", "é", ".", " ", "$", "+", "-", "!", "*"}

InitNames ==
    /\ \E n \in 0..NamesTraceLen :
         \E evs \in ClockedTracesOfLen(n, StringsUpTo(MaxNameLen, NameChars),
                                       {"B", "E"}) :
            NotConstructed(evs)
    /\ wc = NoWildcardCall

\* The construction, then one call with the pattern <name>+ for a name of
\* the trace
NextNames ==
    \/ Construct
    \/ /\ Len(history) = 1
       /\ history[1].outcome = "return"
       /\ \E nm \in DOMAIN event_name_codes :
             \/ EncodeEventPatternCall(nm \o <<BEGIN>>, TRUE)
             \/ Match(nm \o <<BEGIN>>, <<"n", "1">>, TRUE)

SpecNames == InitNames /\ [][NextNames]_vars

-----------------------------------------------------------------------------
(* An EventChain of its own: events are added to it and its properties read *)

ChainProperties == {"ts", "dur", "begin_event", "end_event"}

\* Timestamps at which a double no longer holds a difference of 1e-9: 2^24
\* and the integer after it
LargeTimestamps == {16777216, 16777217}

\* The events added to the chain: begins and ends with a timestamp, begins
\* at the large timestamps, and a metadata event, which has none
ChainEvents(id) ==
    {Event(id, <<"a">>, type, ts) : type \in {"B", "E"}, ts \in 0..MaxTs}
    \cup {Event(id, <<"a">>, "B", ts) : ts \in LargeTimestamps}
    \cup {[id |-> id, name |-> <<"process_name">>, type |-> "M", pid |-> 1,
           args |-> [name |-> <<"p">>]]}

\* The names of the flows
FlowNames == {<<"f">>, <<"g">>}

\* Trace.add_flow(name, src, dest) on a trace (or chain) with the events evs
\* and the flow ids fids: the id of the flow is registered first, then the
\* timestamps of src and dest are read (AttributeError when one of them has
\* none, nothing is added then), and a flow start at src.ts and a flow end
\* at the float dest.ts - 1e-9 are added
AddFlow(evs, fids, name, src, dest) ==
    LET flow_id == IF name \in DOMAIN fids THEN fids[name]
                   ELSE Cardinality(DOMAIN fids)
        registered == IF name \in DOMAIN fids THEN fids ELSE fids @@ (name :> flow_id)
        Timed(e, x) == [k \in DOMAIN e \ {"ts"} |-> e[k]] @@ Attribute("ts", "ts_frac", x)
        flow_event_start ==
            Timed(TraceEventFlow(Len(evs) + 1, name, "s", 0, flow_id), TsOf(src))
        flow_event_end ==
            Timed(TraceEventFlow(Len(evs) + 2, name, "f", 0, flow_id),
                  FloatSub(TsOf(dest), Float1e9th))
    IN IF "ts" \notin DOMAIN src \/ "ts" \notin DOMAIN dest
       THEN [outcome |-> "AttributeError", events |-> evs, flow_ids |-> registered]
       ELSE [outcome |-> "return", events |-> evs \o <<flow_event_start, flow_event_end>>,
             flow_ids |-> registered]

\* add_flow(name, src, dest) on the chain, for two events of the chain
ChainAddFlow(name, src, dest) ==
    /\ Len(chains[1].events) + 2 <= MaxChainEvents
    /\ chains' = [chains EXCEPT
                    ![1].events = AddFlow(chains[1].events, chains[1].flow_ids,
                                          name, src, dest).events,
                    ![1].flow_ids = AddFlow(chains[1].events, chains[1].flow_ids,
                                            name, src, dest).flow_ids]
    /\ UNCHANGED <<events, process_names, thread_names, n_codes, event_name_codes,
                   events_string, event_chains, event_chain_index, history, wc, flow_ids>>

\* Trace.add_event(event) on the chain
ChainAddEvent(event) ==
    /\ Len(chains[1].events) < MaxChainEvents
    /\ chains' = [chains EXCEPT ![1].events = Append(@, event)]
    /\ UNCHANGED <<events, process_names, thread_names, n_codes, event_name_codes,
                   events_string, event_chains, event_chain_index, history, wc, flow_ids>>

\* Trace.add_events(events) on the chain: add_event for each, in order
ChainAddEvents(evs) ==
    /\ Len(chains[1].events) + Len(evs) <= MaxChainEvents
    /\ chains' = [chains EXCEPT ![1].events = @ \o evs]
    /\ UNCHANGED <<events, process_names, thread_names, n_codes, event_name_codes,
                   events_string, event_chains, event_chain_index, history, wc, flow_ids>>

\* A read of chain.<prop>
ReadChainProperty(prop) ==
    /\ Len(history) < MaxCalls
    /\ history' = Append(history, [op |-> prop] @@ ReadProperty(chains[1], prop))
    /\ UNCHANGED <<events, process_names, thread_names, n_codes, event_name_codes,
                   events_string, chains, event_chains, event_chain_index, wc, flow_ids>>

\* EventChain(name): no events, no analyzer
InitChain ==
    /\ chains = <<[name |-> <<"n", "1">>, events |-> <<>>, flow_ids |-> <<>>]>>
    /\ events = <<>>
    /\ process_names = <<>>
    /\ thread_names = <<>>
    /\ flow_ids = <<>>
    /\ event_name_codes = <<>>
    /\ n_codes = 0
    /\ events_string = <<>>
    /\ event_chains = <<>>
    /\ event_chain_index = <<>>
    /\ history = <<>>
    /\ wc = NoWildcardCall

NextChain ==
    \/ \E e \in ChainEvents(Len(chains[1].events) + 1) : ChainAddEvent(e)
    \/ \E e1 \in ChainEvents(Len(chains[1].events) + 1),
          e2 \in ChainEvents(Len(chains[1].events) + 2) : ChainAddEvents(<<e1, e2>>)
    \/ \E name \in FlowNames :
          \E src \in Range(chains[1].events), dest \in Range(chains[1].events) :
             ChainAddFlow(name, src, dest)
    \/ \E prop \in ChainProperties : ReadChainProperty(prop)

SpecChain == InitChain /\ [][NextChain]_vars

-----------------------------------------------------------------------------
(* The life of a trace and its analyzer: the trace is built event by event
   and named, an analyzer is constructed on it, patterns are matched and the
   result is exported *)

\* A trace that inserts a new event in front of the others
TraceAddEvent_InFront(event) ==
    /\ Len(events) < MaxLifeEvents
    /\ events' = <<event>> \o events
    /\ UNCHANGED <<process_names, thread_names, n_codes, event_name_codes,
                   events_string, chains, event_chains, event_chain_index, history, wc, flow_ids>>

\* Trace.add_event(event) on the analyzed trace
TraceAddEvent(event) ==
    /\ Len(events) < MaxLifeEvents
    /\ events' = Append(events, event)
    /\ UNCHANGED <<process_names, thread_names, n_codes, event_name_codes,
                   events_string, chains, event_chains, event_chain_index, history, wc, flow_ids>>

\* Trace.add_events(events) on the analyzed trace: add_event for each, in order
TraceAddEvents(evs) ==
    /\ Len(events) + Len(evs) <= MaxLifeEvents
    /\ events' = events \o evs
    /\ UNCHANGED <<process_names, thread_names, n_codes, event_name_codes,
                   events_string, chains, event_chains, event_chain_index, history, wc, flow_ids>>

\* Trace.add_flow(name, src, dest) on the analyzed trace, for two events of
\* the trace
TraceAddFlow(name, src, dest) ==
    /\ Len(events) + 2 <= MaxLifeEvents
    /\ events' = AddFlow(events, flow_ids, name, src, dest).events
    /\ flow_ids' = AddFlow(events, flow_ids, name, src, dest).flow_ids
    /\ UNCHANGED <<process_names, thread_names, n_codes, event_name_codes,
                   events_string, chains, event_chains, event_chain_index, history, wc>>

\* dict[key] = name on a dict kept as the list of its items, where held is
\* the set of places of the key in the list: the name of a key the dict has
\* is replaced in place, a new key goes to the end
DictSet(items, held, item) ==
    IF held # {}
    THEN [i \in DOMAIN items |-> IF i \in held THEN item ELSE items[i]]
    ELSE Append(items, item)

\* Trace.set_process_name(pid, name)
SetProcessName(pid, name) ==
    /\ process_names' = DictSet(process_names,
                                {i \in DOMAIN process_names : process_names[i].pid = pid},
                                [pid |-> pid, name |-> name])
    /\ UNCHANGED <<events, thread_names, n_codes, event_name_codes,
                   events_string, chains, event_chains, event_chain_index, history, wc, flow_ids>>

\* Trace.set_thread_name(pid, tid, name)
SetThreadName(pid, tid, name) ==
    /\ thread_names' = DictSet(thread_names,
                               {i \in DOMAIN thread_names :
                                   thread_names[i].pid = pid /\ thread_names[i].tid = tid},
                               [pid |-> pid, tid |-> tid, name |-> name])
    /\ UNCHANGED <<events, process_names, n_codes, event_name_codes,
                   events_string, chains, event_chains, event_chain_index, history, wc, flow_ids>>

\* The events a trace is built of: the k-th event added has timestamp k - 1,
\* or it is a begin of a that was given no timestamp
LifeEvents(id) ==
    {Event(id, nm, type, id - 1) : nm \in TraceNames, type \in {"B", "E"}}
    \cup {EventWithoutTs(id, <<"a">>, "B")}

\* The patterns matched: a region, a single event, a name that is not in the
\* trace and a malformed pattern
LifePatterns ==
    {<<"a", "+", "*", "a", "-">>,
     <<"b", "-">>,
     <<"c", "+">>,
     <<"a", "+", "*">>}

\* The process ids given to the export
LifePids == {7, 1000}

\* Trace(): no events, no names, no analyzer
InitLife ==
    /\ NotConstructed(<<>>)
    /\ wc = NoWildcardCall

\* The trace is built before the analyzer is constructed on it; the
\* analyzer then serves up to MaxCalls calls
NextLife ==
    \/ /\ history = <<>>
       /\ \/ \E e \in LifeEvents(Len(events) + 1) : TraceAddEvent(e)
          \/ \E e1 \in LifeEvents(Len(events) + 1), e2 \in LifeEvents(Len(events) + 2) :
                TraceAddEvents(<<e1, e2>>)
          \/ \E name \in FlowNames : \E src \in Range(events), dest \in Range(events) :
                TraceAddFlow(name, src, dest)
          \/ SetProcessName(1, <<"p">>)
          \/ SetThreadName(1, 1, <<"t">>)
    \/ Construct
    \/ /\ history # <<>>
       /\ Len(history) < 1 + MaxCalls
       /\ \/ \E p \in LifePatterns, nm \in ChainNames : Match(p, nm, TRUE)
          \/ \E pid \in LifePids : ToTefJson(pid)

SpecLife == InitLife /\ [][NextLife]_vars

-----------------------------------------------------------------------------
(* The compilation of all short patterns of well-formed tokens, on the trace
   of the tests and on a trace whose codes have two letters *)

\* setup_trace_analyzer(n_events=4) of the tests of _encode_event_pattern
TestEvents == 4

\* The tokens of the patterns: event000 .. event003, begin and end
CompileTokens ==
    {EventName(i) \o <<t>> : i \in 0..(TestEvents - 1), t \in {BEGIN, END}}

\* The patterns of up to MaxCompileTokens tokens, with a wildcard between
\* any two of them or not
CompilePatterns ==
    UNION {{PatternOf(toks, stars) : toks \in [1..k -> CompileTokens],
                                     stars \in SUBSET (1..(k - 1))} :
           k \in 1..MaxCompileTokens}

InitCompile ==
    /\ \E n \in {TestEvents, CODE_BASE + 1} : Constructed(SetupTrace(n), <<>>, <<>>)
    /\ wc = NoWildcardCall

\* One compilation on a fresh analyzer
NextCompile ==
    /\ Len(history) < 1
    /\ \E p \in CompilePatterns, x \in BOOLEAN : EncodeEventPatternCall(p, x)

SpecCompile == InitCompile /\ [][NextCompile]_vars

-----------------------------------------------------------------------------
(* One match on a trace of two names and on a trace of more than CODE_BASE
   names, whose codes have two letters *)

\* The names the patterns refer to: event000 and event001
WideNames == {EventName(0), EventName(1)}

\* k instant events, one for each of the names event000 .. event<k-1>
InstantEvents(k) == [i \in 1..k |-> Event(i, EventName(i - 1), "I", i - 1)]

\* No or CODE_BASE + 1 instant events of different names, then any begins
\* and ends of the two names, the timestamps counting up
WideTraces ==
    UNION {{InstantEvents(k)
            \o [i \in 1..n |-> Event(k + i, f[i][1], f[i][2], k + i - 1)] :
            f \in [1..n -> WideNames \X {"B", "E"}]} :
           k \in {0, CODE_BASE + 1}, n \in 0..MaxWideEvents}

WideTokens == {nm \o <<t>> : nm \in WideNames, t \in {BEGIN, END}}

WidePatterns ==
    UNION {{PatternOf(toks, stars) : toks \in [1..k -> WideTokens],
                                     stars \in SUBSET (1..(k - 1))} :
           k \in 1..MaxTokens}

InitWide ==
    /\ \E evs \in WideTraces : Constructed(evs, <<>>, <<>>)
    /\ wc = NoWildcardCall

NextWide ==
    /\ Len(history) < 1
    /\ \E p \in WidePatterns, x \in BOOLEAN : Match(p, <<"n", "1">>, x)

SpecWide == InitWide /\ [][NextWide]_vars

-----------------------------------------------------------------------------
(* Calls of match, one after the other, on a trace long enough for a pattern
   to match several regions *)

\* A region of a, a region of b (which may nest in it or overlap it) and a
\* single event
RepeatPatterns ==
    {<<"a", "+", "*", "a", "-">>,
     <<"b", "+", "*", "b", "-">>,
     <<"b", "-">>}

InitRepeat ==
    /\ \E n \in 0..MaxMatchEvents :
         \E evs \in ClockedTracesOfLen(n, TraceNames, {"B", "E"}) :
            Constructed(evs, <<>>, <<>>)
    /\ wc = NoWildcardCall

NextRepeat ==
    /\ Len(history) < MaxCalls
    /\ \E p \in RepeatPatterns, nm \in ChainNames, x \in BOOLEAN : Match(p, nm, x)

SpecRepeat == InitRepeat /\ [][NextRepeat]_vars

-----------------------------------------------------------------------------
(* What the claims speak about *)

\* The last call
Ret == history[Len(history)]

\* The last call was a match that returned
MatchReturned == history # <<>> /\ Ret.op = "match" /\ Ret.outcome = "return"

\* The compiled pattern of a call, and its regex matches on the events string
EncOf(call) == EncodeEventPattern(call.pattern, call.exclusive, event_name_codes, n_codes)
MatchesOf(call) ==
    IF EncOf(call).status = "ok" THEN ReFindIter(EncOf(call).regex, events_string, 1)
    ELSE <<>>

\* The place of event i in the events string, and the event at an offset
EventOffset(i) == (i - 1) * (n_codes + 1) + 1
EventIndexAt(offset) == CHOOSE i \in 1..Len(events) : EventOffset(i) = offset

\* The (code, type) pair of event i
EventPair(i) == [code |-> event_name_codes[events[i].name],
                 type |-> EventTypeCode(events[i].type)]

\* The trace made of k blocks a+ a- followed by b+
IsBlocksThenFinal(k) ==
    /\ Len(events) = 2 * k + 1
    /\ \A i \in 1..(2 * k) :
          /\ events[i].name = <<"a">>
          /\ events[i].type = (IF i % 2 = 1 THEN "B" ELSE "E")
    /\ events[2 * k + 1].name = <<"b">>
    /\ events[2 * k + 1].type = "B"

BlockPattern == <<"a", "+", "*", "a", "-", "b", "+">>

-----------------------------------------------------------------------------
(* C1 *)

\* C1: every regex match found by match yields a chain whose events are
\* exactly the non-empty contiguous slice of the trace from the event matched
\* by the first token to the event matched by the last token, both included,
\* with the events swallowed by wildcards in between.
C1_ChainIsInclusiveSlice ==
    MatchReturned =>
        LET ms == MatchesOf(Ret)
        IN /\ Len(Ret.chains) = Len(ms)
           /\ \A k \in DOMAIN ms :
                \E first \in 1..Len(events), last \in 1..Len(events) :
                    /\ EventOffset(first) = ms[k].groups[1]
                    /\ EventOffset(last) = ms[k].groups[Len(ms[k].groups)]
                    /\ first <= last
                    /\ chains[Ret.chains[k]].events = [j \in 1..(last - first + 1) |->
                                                          events[first + j - 1]]

\* A match whose wildcard swallowed events that the chain holds
C1_Witness ==
    /\ MatchReturned
    /\ \E k \in DOMAIN MatchesOf(Ret) :
          /\ \E g \in DOMAIN MatchesOf(Ret)[k].gaps : MatchesOf(Ret)[k].gaps[g] # <<>>
          /\ Len(chains[Ret.chains[k]].events) >= 3

-----------------------------------------------------------------------------
(* C5 *)

\* The number of capturing groups before wildcard g of a compiled pattern
GroupsBefore(enc, g) ==
    Len(Concat([i \in 1..g |-> enc.subpatterns[i]]))

\* The events of match m that lie in wildcard gap g: strictly between the
\* event of the last group before the wildcard and that of the first after it
GapEvents(enc, m, g) ==
    {j \in 1..Len(events) :
        /\ EventIndexAt(m.groups[GroupsBefore(enc, g)]) < j
        /\ j < EventIndexAt(m.groups[GroupsBefore(enc, g) + 1])}

\* The wildcards of a compiled regex, in order
WildcardsOf(regex) ==
    LET at == {i \in DOMAIN regex : regex[i].kind = "wild"}
        RECURSIVE Pick(_)
        Pick(S) == IF S = {} THEN <<>> ELSE <<regex[Min(S)]>> \o Pick(S \ {Min(S)})
    IN Pick(at)

\* The pattern x+*x-
IsBeginAnyEnd(pattern, x) == pattern = <<x[1], BEGIN, WILDCARD, x[1], END>>

\* C5: in exclusive mode no event consumed by a wildcard gap of a match is a
\* (code, type) pair of the gap's exclusion set; every chain matched by x+*x-
\* holds exactly one begin of x, its first event, and exactly one end of x, its
\* last event; and a+*a-b+ on blocks a+ a- followed by b+ matches the last
\* block only.
C5_ExclusiveWildcardSkipsExcluded ==
    (MatchReturned /\ Ret.exclusive) =>
        LET enc == EncOf(Ret)
            ms == MatchesOf(Ret)
        IN /\ \A k \in DOMAIN ms :
                \A g \in 1..(Len(enc.subpatterns) - 1) :
                    \A j \in GapEvents(enc, ms[k], g) :
                        EventPair(j) \notin Range(WildcardsOf(enc.regex)[g].excluded)
           /\ \A x \in TraceNames :
                IsBeginAnyEnd(Ret.pattern, x) =>
                    \A k \in DOMAIN Ret.chains :
                        LET evs == chains[Ret.chains[k]].events
                        IN /\ {j \in DOMAIN evs : evs[j].name = x /\ evs[j].type = "B"} = {1}
                           /\ {j \in DOMAIN evs : evs[j].name = x /\ evs[j].type = "E"}
                                 = {Len(evs)}
           /\ \A b \in 1..Len(events) :
                (IsBlocksThenFinal(b) /\ Ret.pattern = BlockPattern) =>
                    /\ Len(Ret.chains) = 1
                    /\ chains[Ret.chains[1]].events = SubSeq(events, 2 * b - 1, 2 * b + 1)

\* An exclusive x+*x- whose wildcard swallowed an event and whose match could
\* not start at the first begin of x, because x begins again before it ends
C5_Witness ==
    /\ MatchReturned /\ Ret.exclusive
    /\ IsBeginAnyEnd(Ret.pattern, <<"a">>)
    /\ Len(events) >= 4
    /\ events[1].name = <<"a">> /\ events[1].type = "B"
    /\ Len(Ret.chains) = 1
    /\ chains[Ret.chains[1]].events[1].id = 2
    /\ Len(chains[Ret.chains[1]].events) = 3

\* The pattern of the tests on two blocks and the final event: the last block
C5_WitnessBlocks ==
    /\ MatchReturned /\ Ret.exclusive
    /\ IsBlocksThenFinal(2) /\ Ret.pattern = BlockPattern
    /\ Len(Ret.chains) = 1

-----------------------------------------------------------------------------
(* C8 *)

\* The tokens of subpattern sub are the events i, i + 1, ...
SubpatternAt(sub, i) ==
    /\ i >= 1
    /\ i + Len(sub) - 1 <= Len(events)
    /\ \A k \in DOMAIN sub : EventPair(i + k - 1) = sub[k]

\* Subpatterns g, g + 1, ... occur in this order, subpattern g at event i, any
\* events between them, the last one ending at event e
RECURSIVE OccursFrom(_, _, _, _)
OccursFrom(subs, g, i, e) ==
    /\ SubpatternAt(subs[g], i)
    /\ IF g = Len(subs) THEN e = i + Len(subs[g]) - 1
       ELSE \E i2 \in (i + Len(subs[g]))..Len(events) : OccursFrom(subs, g + 1, i2, e)

\* The matches of the subpatterns from event pos on, each starting at the
\* leftmost occurrence of the first subpattern and ending at the earliest event
\* where the remaining subpatterns have occurred, as <<first, last>> pairs
RECURSIVE LeftmostEarliest(_, _)
LeftmostEarliest(subs, pos) ==
    LET starts == {i \in pos..Len(events) : SubpatternAt(subs[1], i)}
        ends == {e \in 1..Len(events) : OccursFrom(subs, 1, Min(starts), e)}
    IN IF starts = {} \/ ends = {} THEN <<>>
       ELSE <<<<Min(starts), Min(ends)>>>> \o LeftmostEarliest(subs, Min(ends) + 1)

\* C8: in non-exclusive mode every wildcard is the lazy repetition of
\* code-width letters and one non-word character without a lookahead, one per
\* '*'; each match starts at the leftmost occurrence of the first subpattern
\* and extends to the earliest event where the remaining subpatterns match,
\* whatever events lie between; a+*a-b+ on blocks a+ a- followed by b+ matches
\* the whole trace as one chain.
C8_NonExclusiveWildcardTakesAnything ==
    (MatchReturned /\ ~Ret.exclusive /\ EncOf(Ret).status = "ok") =>
        LET enc == EncOf(Ret)
            wilds == WildcardsOf(enc.regex)
            expected == LeftmostEarliest(enc.subpatterns, 1)
        IN /\ Len(wilds) = Cardinality({i \in DOMAIN Ret.pattern : Ret.pattern[i] = WILDCARD})
           /\ \A g \in DOMAIN wilds : wilds[g].excluded = <<>> /\ wilds[g].width = n_codes
           /\ Len(Ret.chains) = Len(expected)
           /\ \A k \in DOMAIN expected :
                chains[Ret.chains[k]].events = SubSeq(events, expected[k][1], expected[k][2])
           /\ \A b \in 1..Len(events) :
                (IsBlocksThenFinal(b) /\ Ret.pattern = BlockPattern) =>
                    /\ Len(Ret.chains) = 1
                    /\ chains[Ret.chains[1]].events = events

\* The non-exclusive pattern of the tests on two blocks and the final event:
\* the wildcard swallowed a begin and an end of the pinned event a
C8_Witness ==
    /\ MatchReturned /\ ~Ret.exclusive
    /\ IsBlocksThenFinal(2) /\ Ret.pattern = BlockPattern
    /\ Len(Ret.chains) = 1
    /\ Len(chains[Ret.chains[1]].events) = 5

-----------------------------------------------------------------------------
(* C2 *)

\* The step is a call of match with the pattern and the wildcard mode of the
\* match called just before it
IsRematchStep ==
    /\ history # <<>>
    /\ Len(history') = Len(history) + 1
    /\ Ret.op = "match" /\ Ret'.op = "match"
    /\ Ret'.pattern = Ret.pattern
    /\ Ret'.exclusive = Ret.exclusive

\* C2: re-matching is idempotent: match(p, n1) followed by match(p, n2) leaves
\* the number of event chains as it was after the first call, returns the same
\* chain objects, leaves their events unchanged and names every chain matched
\* by p n2.
C2_RematchIsIdempotent ==
    [][IsRematchStep =>
         /\ Len(event_chains') = Len(event_chains)
         /\ Ret'.outcome = Ret.outcome
         /\ Ret'.chains = Ret.chains
         /\ \A c \in Range(Ret.chains) :
               /\ chains'[c].events = chains[c].events
               /\ chains'[c].name = Ret'.name]_vars

\* The same pattern matched twice under two names, with a chain to rename
C2_Witness ==
    /\ Len(history) = 2
    /\ history[1].op = "match" /\ history[2].op = "match"
    /\ history[1].pattern = history[2].pattern
    /\ history[1].exclusive = history[2].exclusive
    /\ history[1].name # history[2].name
    /\ Len(history[2].chains) >= 1
    /\ \A c \in Range(history[2].chains) : chains[c].name = history[2].name

-----------------------------------------------------------------------------
(* C3 *)

\* The (first event, last event) key of a chain
KeyOf(chain) == <<chain.events[1].id, chain.events[Len(chain.events)].id>>

\* The keys of the regex matches of a match call
KeysOf(call) ==
    IF call.op # "match" THEN {}
    ELSE {<<events[EventIndexAt(m.groups[1])].id,
            events[EventIndexAt(m.groups[Len(m.groups)])].id>> :
          m \in Range(MatchesOf(call))}

\* The calls whose matches included the key
CallsMatching(key) == {k \in DOMAIN history : key \in KeysOf(history[k])}

Max(S) == CHOOSE x \in S : \A y \in S : x >= y

\* C3: after any sequence of match calls no two chains of event_chains have
\* the same (first event, last event) pair, event_chains and the chain index
\* hold the same chains, and the name of a chain is the name given to the most
\* recent match call whose matches included its pair.
C3_ChainsAreKeyedAndNamedByLastMatch ==
    /\ \A i \in DOMAIN event_chains : \A j \in DOMAIN event_chains :
          i # j => KeyOf(chains[event_chains[i]]) # KeyOf(chains[event_chains[j]])
    /\ Range(event_chains) = Range(event_chain_index)
    /\ \A key \in DOMAIN event_chain_index : KeyOf(chains[event_chain_index[key]]) = key
    /\ \A i \in DOMAIN event_chains :
          LET key == KeyOf(chains[event_chains[i]])
          IN /\ CallsMatching(key) # {}
             /\ chains[event_chains[i]].name = history[Max(CallsMatching(key))].name

\* Two different patterns matched the same pair under two names
C3_Witness ==
    /\ Len(history) = 2
    /\ history[1].pattern # history[2].pattern
    /\ history[1].name # history[2].name
    /\ \E key \in KeysOf(history[1]) \cap KeysOf(history[2]) :
          chains[event_chain_index[key]].name = history[2].name

-----------------------------------------------------------------------------
(* C4 *)

\* C4: after every match call that returns, with matches, without matches or
\* by the name-not-found soft failure, event_chains is ordered by
\* non-decreasing start timestamp.
C4_ChainsSortedByStart ==
    MatchReturned =>
        \A i \in DOMAIN event_chains : \A j \in DOMAIN event_chains :
            LET first == ChainBeginEvent(chains[event_chains[i]])
                second == ChainBeginEvent(chains[event_chains[j]])
            IN i < j /\ "ts" \in DOMAIN first /\ "ts" \in DOMAIN second
                  => ~TsLess(second, first)

\* What the sort establishes: the list is in order after every match that
\* returns, unless a chain of the list begins with an event without a
\* timestamp (such a chain makes the sort raise, and the list stays as the
\* matches were appended to it)
ChainsSortedWhenAllTimed ==
    MatchReturned =>
        \/ \E i \in DOMAIN event_chains :
              "ts" \notin DOMAIN ChainBeginEvent(chains[event_chains[i]])
        \/ \A i \in DOMAIN event_chains : \A j \in DOMAIN event_chains :
              i < j => ~TsLess(ChainBeginEvent(chains[event_chains[j]]),
                               ChainBeginEvent(chains[event_chains[i]]))

\* A second pattern found a chain that starts earlier than a chain of the
\* first pattern and lies within it
ChainsWereReordered ==
    /\ MatchReturned
    /\ Len(history) = 2
    /\ history[1].pattern # history[2].pattern
    /\ \E i \in DOMAIN event_chains : \E j \in DOMAIN event_chains :
          /\ i < j
          /\ event_chains[i] > event_chains[j]
          /\ ChainTs(chains[event_chains[i]]) < ChainTs(chains[event_chains[j]])
          /\ KeyOf(chains[event_chains[j]])[1] < KeyOf(chains[event_chains[i]])[1]
          /\ KeyOf(chains[event_chains[i]])[2] < KeyOf(chains[event_chains[j]])[2]

-----------------------------------------------------------------------------
(* C9 *)

\* A subpattern of the pattern language: <name><marker> repeated, a name being
\* a run of word characters and a marker one of + - !
IsTokenSequence(sub) ==
    /\ Len(sub) >= 2
    /\ IsWordChar(sub[1])
    /\ \A i \in DOMAIN sub :
          ~IsWordChar(sub[i]) =>
              /\ sub[i] \in ValidTypeCodes
              /\ i > 1
              /\ IsWordChar(sub[i - 1])
    /\ ~IsWordChar(sub[Len(sub)])

\* A syntactically valid pattern: token sequences separated by wildcards
IsWellFormed(pattern) == \A sub \in Range(Split(pattern)) : IsTokenSequence(sub)

\* The event names a pattern refers to
NamesIn(pattern) ==
    UNION {{m.name : m \in Range(ReEventFindIter(sub, 1))} : sub \in Range(Split(pattern))}

\* The step is a match of a valid pattern that names an event not in the trace
IsAbsentNameStep ==
    /\ Len(history') = Len(history) + 1
    /\ Ret'.op = "match"
    /\ IsWellFormed(Ret'.pattern)
    /\ \E nm \in NamesIn(Ret'.pattern) : \A i \in DOMAIN events : events[i].name # nm

\* C9: a match whose pattern is syntactically valid but names an event that
\* is not in the trace returns an empty list without raising and leaves
\* event_chains and the chain index as they were.
C9_AbsentNameIsSoftFailure ==
    [][IsAbsentNameStep =>
         /\ Ret'.outcome = "return"
         /\ Ret'.chains = <<>>
         /\ chains' = chains
         /\ event_chains' = event_chains
         /\ event_chain_index' = event_chain_index]_vars

\* A pattern naming an absent event, matched on an analyzer that holds chains
C9_Witness ==
    /\ Len(history) = 2
    /\ Ret.op = "match"
    /\ IsWellFormed(Ret.pattern)
    /\ \E nm \in NamesIn(Ret.pattern) : \A i \in DOMAIN events : events[i].name # nm
    /\ Ret.outcome = "return" /\ Ret.chains = <<>>
    /\ Len(event_chains) >= 2

-----------------------------------------------------------------------------
(* C6 *)

WcCodes == {t.code : t \in WcTokens}

\* The number of tokens (code, type) among toks[from..]
CountFrom(toks, code, type, from) ==
    Cardinality({k \in from..Len(toks) : toks[k].code = code /\ toks[k].type = type})

\* The result is for an exclusive call
WildcardsCreated == wc.done /\ wc.exclusive

\* C6 as claimed: (code, '+') is excluded from a gap exactly for the codes
\* with more begin tokens than end tokens in the subpattern before the gap.
C6_OpenByTokenCount ==
    WildcardsCreated =>
        \A g \in DOMAIN wc.out : \A code \in WcCodes :
            [code |-> code, type |-> BEGIN] \in Range(wc.out[g].excluded)
            <=> CountFrom(wc.subpatterns[g], code, BEGIN, 1)
                  > CountFrom(wc.subpatterns[g], code, END, 1)

\* C6 as amended: (code, '+') is excluded from a gap exactly for the codes
\* that are open at the end of the subpattern before the gap, a code being
\* open if some begin token of it is not closed by an end token after it:
\* from some token of the subpattern on, its begin tokens outnumber its end
\* tokens.
C6_OpenBeginsExcluded ==
    WildcardsCreated =>
        \A g \in DOMAIN wc.out : \A code \in WcCodes :
            [code |-> code, type |-> BEGIN] \in Range(wc.out[g].excluded)
            <=> \E from \in DOMAIN wc.subpatterns[g] :
                   CountFrom(wc.subpatterns[g], code, BEGIN, from)
                     > CountFrom(wc.subpatterns[g], code, END, from)

\* An end before a begin of the same code: the begin is open and excluded,
\* and the subpattern two places before the gap has no part in it
C6_Witness ==
    /\ WildcardsCreated
    /\ Len(wc.subpatterns) = 3
    /\ wc.subpatterns[1] = <<[code |-> <<"B">>, type |-> BEGIN]>>
    /\ wc.subpatterns[2] = <<[code |-> <<"A">>, type |-> END],
                             [code |-> <<"A">>, type |-> BEGIN]>>
    /\ [code |-> <<"A">>, type |-> BEGIN] \in Range(wc.out[2].excluded)
    /\ [code |-> <<"B">>, type |-> BEGIN] \notin Range(wc.out[2].excluded)

-----------------------------------------------------------------------------
(* C7 *)

\* The begins of code that are open before token k of toks, an end closing
\* an open begin and an end without one leaving none open
RECURSIVE OpenBefore(_, _, _)
OpenBefore(toks, code, k) ==
    IF k = 1 THEN 0
    ELSE LET x == OpenBefore(toks, code, k - 1)
             t == toks[k - 1]
         IN IF t.code # code THEN x
            ELSE IF t.type = BEGIN THEN x + 1
            ELSE IF t.type = END /\ x > 0 THEN x - 1
            ELSE x

\* Some end token of code stands where no begin of it is open
HasExposedEnd(toks, code) ==
    \E k \in DOMAIN toks :
        toks[k].code = code /\ toks[k].type = END /\ OpenBefore(toks, code, k) = 0

\* C7: (code, '-') is excluded from a gap exactly for the codes with an
\* exposed end in the subpattern after the gap (an end token seen while no
\* begin of its code is open, each code counted on its own), and the
\* exclusion set is the union of these ends and the open begins of the
\* subpattern before the gap and holds nothing else; so a lone begin after
\* the gap excludes nothing and two ends after the gap exclude the end.
C7_ExposedEndsExcluded ==
    WildcardsCreated =>
        \A g \in DOMAIN wc.out :
            Range(wc.out[g].excluded) =
                {[code |-> code, type |-> BEGIN] :
                    code \in {c \in WcCodes :
                        \E from \in DOMAIN wc.subpatterns[g] :
                            CountFrom(wc.subpatterns[g], c, BEGIN, from)
                              > CountFrom(wc.subpatterns[g], c, END, from)}}
                \cup {[code |-> code, type |-> END] :
                    code \in {c \in WcCodes : HasExposedEnd(wc.subpatterns[g + 1], c)}}

-----------------------------------------------------------------------------
(* C10 *)

\* The calls of match with a syntactically valid pattern
WellFormedMatches ==
    {k \in DOMAIN history : history[k].op = "match" /\ IsWellFormed(history[k].pattern)}

Exports == {k \in DOMAIN history : history[k].op = "to_tef_json"}

\* What match does on a trace without events
EmptyTraceMatchesNothing ==
    /\ event_name_codes = <<>>
    /\ events_string = <<>>
    /\ event_chains = <<>>
    /\ \A k \in WellFormedMatches :
          history[k].outcome = "return" /\ history[k].chains = <<>>

\* C10 as claimed: on a trace with zero events the name-code mapping and the
\* events string are empty, match of a well-formed pattern returns an empty
\* list, event_chains stays empty and the traceEvents of to_tef_json is empty.
C10_EmptyTraceExportsNothing ==
    Len(events) = 0 =>
        /\ EmptyTraceMatchesNothing
        /\ \A k \in Exports : history[k].tef = <<>>

\* The exported form of the process and thread names of the trace
ExportedNames ==
    [i \in DOMAIN process_names |->
        [name |-> <<"process_name">>, ph |-> "M", pid |-> process_names[i].pid,
         args |-> [name |-> process_names[i].name]]]
    \o [i \in DOMAIN thread_names |->
        [name |-> <<"thread_name">>, ph |-> "M", pid |-> thread_names[i].pid,
         tid |-> thread_names[i].tid, args |-> [name |-> thread_names[i].name]]]

\* C10 as amended: on a trace with zero events the name-code mapping and the
\* events string are empty, match of a well-formed pattern returns an empty
\* list, event_chains stays empty, and the traceEvents of to_tef_json holds
\* the metadata events of the trace's process and thread names and nothing
\* else: it is empty when no such name is set.
C10_EmptyTraceExportsOnlyMetadata ==
    Len(events) = 0 =>
        /\ EmptyTraceMatchesNothing
        /\ \A k \in Exports :
              /\ history[k].tef = ExportedNames
              /\ (process_names = <<>> /\ thread_names = <<>>) => history[k].tef = <<>>

\* A well-formed pattern matched on the empty trace, then the export of a
\* trace that has a process name and a thread name
C10_Witness ==
    /\ Len(events) = 0
    /\ Len(history) = 2
    /\ 1 \in WellFormedMatches
    /\ 2 \in Exports
    /\ Len(process_names) = 1 /\ Len(thread_names) = 1
    /\ Len(history[2].tef) = 2

-----------------------------------------------------------------------------
(* C11 *)

\* An analyzer has been constructed on the trace
IsConstructed ==
    history # <<>> /\ history[1].op = "__init__" /\ history[1].outcome = "return"

\* The state that __init__ leaves: no call has been made yet
JustConstructed == IsConstructed /\ Len(history) = 1

\* The distinct event names of the trace
EventNames == {events[i].name : i \in DOMAIN events}

\* C11: for a trace with N >= 1 distinct names every name has a code, all
\* codes have the same length w, w is the smallest integer >= 1 with
\* 52^w >= N, and the codes are pairwise distinct.
C11_CodesAreInjectiveOfMinimalWidth ==
    JustConstructed =>
        LET N == Cardinality(EventNames)
            w == n_codes
        IN /\ DOMAIN event_name_codes = EventNames
           /\ \A nm \in EventNames : Len(event_name_codes[nm]) = w
           /\ w >= 1
           /\ Pow(52, w) >= N
           /\ w > 1 => Pow(52, w - 1) < N
           /\ \A a, b \in EventNames :
                 event_name_codes[a] = event_name_codes[b] => a = b

\* 53 names: the first trace that needs codes of two letters
C11_Witness ==
    /\ JustConstructed
    /\ Cardinality(EventNames) = 53
    /\ n_codes = 2
    /\ \A nm \in EventNames : Len(event_name_codes[nm]) = 2

-----------------------------------------------------------------------------
(* C12 *)

\* The letter of a base-52 digit: 0 -> 'A' .. 25 -> 'Z', 26 -> 'a' .. 51 -> 'z'
Base52Letter(d) == (UpperCase \o LowerCase)[d + 1]

\* The big-endian base-52 representation of i on w letters
Base52(i, w) == [j \in 1..w |-> Base52Letter((i \div Pow(52, w - j)) % 52)]

\* The 0-based position of a name among the sorted distinct names
SortedPosition(nm) == Cardinality({m \in EventNames : StrLess(m, nm)})

\* C12: the name at position i of the sorted distinct names has the
\* big-endian base-52 representation of i, padded with 'A' to the code
\* width (1 name: 'A'; 10 names: 'A'..'J'; 104 names: 'AA' at 0, 'AZ' at
\* 25, 'Aa' at 26, 'Az' at 51, 'BA' at 52, 'Bz' at 103), and the codes
\* increase strictly in ASCII order along the sorted names.
C12_CodeIsBase52OfSortedPosition ==
    JustConstructed =>
        LET N == Cardinality(EventNames)
            code(i) == event_name_codes[EventName(i)]
        IN /\ \A nm \in EventNames :
                 event_name_codes[nm] = Base52(SortedPosition(nm), n_codes)
           /\ \A a, b \in EventNames :
                 StrLess(a, b) => StrLess(event_name_codes[a], event_name_codes[b])
           /\ N = 1 => code(0) = <<"A">>
           /\ (N = 10 /\ EventName(999) \notin EventNames) =>
                 /\ code(0) = <<"A">>
                 /\ code(1) = <<"B">>
                 /\ code(9) = <<"J">>
           /\ (N = 104 /\ EventName(999) \notin EventNames) =>
                 /\ code(0) = <<"A", "A">>
                 /\ code(25) = <<"A", "Z">>
                 /\ code(26) = <<"A", "a">>
                 /\ code(51) = <<"A", "z">>
                 /\ code(52) = <<"B", "A">>
                 /\ code(103) = <<"B", "z">>

\* The 104 names of test_event_name_codes_104, the last one coded 'Bz'
C12_Witness ==
    /\ JustConstructed
    /\ Cardinality(EventNames) = 104
    /\ EventName(999) \notin EventNames
    /\ event_name_codes[EventName(103)] = <<"B", "z">>

-----------------------------------------------------------------------------
(* C13 *)

\* The 1-based position in events_string of the code of event i (1-based)
CodeStart(i) == (i - 1) * (n_codes + 1) + 1

\* A trace with events that no analyzer has been built on yet
AwaitsConstruction == events # <<>> /\ n_codes = 0

\* C13: after construction and after every call of match and of to_tef_json
\* that follows, in any order and with any outcome, events_string has
\* code_width + 1 characters per event: for each event, in trace order, the
\* code of its name and then its type suffix.
C13_EventsStringIsCodePlusSuffixPerEvent ==
    ~AwaitsConstruction =>
        /\ Len(events_string) = Len(events) * (n_codes + 1)
        /\ \A i \in DOMAIN events :
              /\ SubSeq(events_string, CodeStart(i), CodeStart(i) + n_codes - 1)
                   = event_name_codes[events[i].name]
              /\ events_string[CodeStart(i) + n_codes]
                   = (CASE events[i].type = "B" -> "+"
                        [] events[i].type = "E" -> "-"
                        [] OTHER -> "!")

\* An analyzer whose codes have two letters, on setup_trace of CODE_BASE + 1
\* names and five events of the other types, after a match that returned
\* chains, an export and a match of a malformed pattern
C13_Witness ==
    /\ IsConstructed
    /\ Len(history) = 4
    /\ history[2].op = "match"
    /\ history[2].outcome = "return"
    /\ history[2].chains # <<>>
    /\ history[3].op = "to_tef_json"
    /\ history[3].outcome = "return"
    /\ history[4].op = "match"
    /\ history[4].outcome = "ValueError"
    /\ n_codes = 2
    /\ Len(events) = 2 * (CODE_BASE + 1) + 5
    /\ Len(events_string) = 3 * Len(events)

-----------------------------------------------------------------------------
(* C14 *)

\* C14: the type suffix of an event in events_string is '+' for a duration
\* begin, '-' for a duration end and '!' for an instant, counter, metadata,
\* flow start or flow end event; it is never a letter and never '*'.
C14_SuffixByEventType ==
    IsConstructed =>
        \A i \in DOMAIN events :
            LET suffix == events_string[i * (n_codes + 1)]
            IN /\ events[i].type = "B" => suffix = "+"
               /\ events[i].type = "E" => suffix = "-"
               /\ events[i].type \in {"I", "C", "M", "s", "f"} => suffix = "!"
               /\ suffix \notin Letters
               /\ suffix # "*"

\* A constructed trace that holds an event of every type
C14_Witness ==
    /\ IsConstructed
    /\ {events[i].type : i \in DOMAIN events} = {"B", "E", "I", "C", "M", "s", "f"}
    /\ events_string[Len(events_string)] = "!"

-----------------------------------------------------------------------------
(* C15 *)

\* The calls of _map_string_index_to_event
MapCalls == {c \in DOMAIN history : history[c].op = "_map_string_index_to_event"}

\* C15: for every event index i and every k in 0..code_width,
\* _map_string_index_to_event(i * (code_width + 1) + k) returns
\* (i, trace.events[i]).
C15_IndexMappingInvertsLinearization ==
    \A c \in MapCalls :
        \A i \in 0..(Len(events) - 1) : \A k \in 0..n_codes :
            history[c].index = i * (n_codes + 1) + k =>
                /\ history[c].event_index = i
                /\ history[c].event = events[i + 1]

\* A call at the type suffix (k = code_width = 2) of an event that is not
\* the first
C15_Witness ==
    \E c \in MapCalls :
        /\ n_codes = 2
        /\ history[c].index = 7 * 3 + 2
        /\ history[c].event_index = 7
        /\ history[c].event = events[8]

-----------------------------------------------------------------------------
(* C16 *)

\* The calls that compile a pattern: _encode_event_pattern and match
CompileCalls ==
    {c \in DOMAIN history : history[c].op \in {"_encode_event_pattern", "match"}}

EndsInWildcard(pattern) == pattern # <<>> /\ pattern[Len(pattern)] = WILDCARD

\* The pattern without its last character
Front(pattern) == SubSeq(pattern, 1, Len(pattern) - 1)

\* Every name a pattern refers to is the name of an event of the trace
NamesAreKnown(pattern) ==
    \A nm \in NamesIn(pattern) : \E i \in DOMAIN events : events[i].name = nm

\* C16 as claimed: a pattern that ends in a wildcard with no tokens after
\* it (a valid pattern of known names followed by '*') is valid and compiles
\* without error.
C16_FinalWildcardCompiles ==
    \A c \in CompileCalls :
        (/\ EndsInWildcard(history[c].pattern)
         /\ IsWellFormed(Front(history[c].pattern))
         /\ NamesAreKnown(history[c].pattern))
        => history[c].outcome = "return"

\* C16 as amended: a pattern that ends in a wildcard with no tokens after it
\* is invalid: whatever precedes the wildcard, _encode_event_pattern raises
\* ValueError, and so does match.
C16_FinalWildcardIsSyntaxError ==
    \A c \in CompileCalls :
        EndsInWildcard(history[c].pattern) => history[c].outcome = "ValueError"

\* 'a+*' on a trace with events named a: both calls raise ValueError
C16_Witness ==
    /\ history # <<>>
    /\ Ret.op = "match"
    /\ Ret.pattern = <<"a", "+", "*">>
    /\ Ret.exclusive
    /\ Ret.outcome = "ValueError"

-----------------------------------------------------------------------------
(* C17 *)

\* A name-marker token ends at position j of the pattern: a word character
\* followed by a character that is neither a word character nor the wildcard
IsTokenEnd(pattern, j) ==
    /\ j \in 2..Len(pattern)
    /\ ~IsWordChar(pattern[j])
    /\ pattern[j] # WILDCARD
    /\ IsWordChar(pattern[j - 1])

\* pattern[l..r] is a subpattern: a stretch without wildcard from the start
\* or a wildcard to the end or the next wildcard (empty if r = l - 1)
IsSubpattern(pattern, l, r) ==
    /\ l \in 1..(Len(pattern) + 1)
    /\ r \in (l - 1)..Len(pattern)
    /\ l = 1 \/ pattern[l - 1] = WILDCARD
    /\ r = Len(pattern) \/ pattern[r + 1] = WILDCARD
    /\ \A i \in l..r : pattern[i] # WILDCARD

\* Some subpattern of the pattern holds no token
HasSubpatternWithoutToken(pattern) ==
    \E l \in 1..(Len(pattern) + 1), r \in 0..Len(pattern) :
        /\ IsSubpattern(pattern, l, r)
        /\ ~\E j \in (l + 1)..r : IsTokenEnd(pattern, j)

\* C17: compilation raises ValueError whenever a subpattern obtained by
\* splitting the pattern on '*' holds no name-marker token: a lone '*', a
\* pattern that starts with '*', a pattern that ends with '*', two adjacent
\* wildcards, the empty pattern, and a name without a marker.
C17_SubpatternWithoutTokenIsSyntaxError ==
    \A c \in CompileCalls :
        LET pattern == history[c].pattern
        IN /\ HasSubpatternWithoutToken(pattern) => history[c].outcome = "ValueError"
           /\ (\/ pattern = <<"*">>
               \/ (pattern # <<>> /\ pattern[1] = "*")
               \/ EndsInWildcard(pattern)
               \/ \E i \in 1..(Len(pattern) - 1) : pattern[i] = "*" /\ pattern[i + 1] = "*"
               \/ pattern = <<>>
               \/ \A i \in DOMAIN pattern : IsWordChar(pattern[i]))
              => /\ HasSubpatternWithoutToken(pattern)
                 /\ history[c].outcome = "ValueError"

\* Two adjacent wildcards between valid tokens of known names
C17_Witness ==
    /\ history # <<>>
    /\ Ret.op = "_encode_event_pattern"
    /\ Ret.pattern = <<"a", "+", "*", "*", "a">>
    /\ Ret.outcome = "ValueError"

-----------------------------------------------------------------------------
(* C18 *)

\* The position where the final subpattern starts
FinalStart(pattern) ==
    Max({0} \cup {i \in DOMAIN pattern : pattern[i] = WILDCARD}) + 1

\* Characters remain in the final subpattern after its last token
HasTrailingText(pattern) ==
    LET ends == {j \in (FinalStart(pattern) + 1)..Len(pattern) : IsTokenEnd(pattern, j)}
    IN ends # {} /\ Max(ends) < Len(pattern)

\* C18: compilation raises ValueError whenever characters remain in the
\* final subpattern after its last name-marker token ('a+c', 'a++'),
\* whether or not the names of the pattern are in the trace.
C18_TrailingTextIsSyntaxError ==
    \A c \in CompileCalls :
        LET pattern == history[c].pattern
        IN /\ HasTrailingText(pattern) => history[c].outcome = "ValueError"
           /\ pattern \in {<<"a", "+", "c">>, <<"a", "+", "+">>, <<"c", "+", "a">>}
              => HasTrailingText(pattern)

\* A known name after the last of two valid tokens
C18_Witness ==
    /\ history # <<>>
    /\ Ret.op = "_encode_event_pattern"
    /\ Ret.pattern = <<"a", "+", "a", "+", "a">>
    /\ Ret.outcome = "ValueError"

-----------------------------------------------------------------------------
(* C19 *)

\* The tokens of the pattern whose marker is none of '+', '-', '!'
BadMarkerTokens(pattern) ==
    {j \in DOMAIN pattern : IsTokenEnd(pattern, j) /\ pattern[j] \notin {"+", "-", "!"}}

\* The name of the token that ends at position j: the longest run of word
\* characters before the marker
TokenName(pattern, j) ==
    LET start == Min({l \in 1..(j - 1) : \A i \in l..(j - 1) : IsWordChar(pattern[i])})
    IN SubSeq(pattern, start, j - 1)

\* The tokens that name no event of the trace
AbsentNameTokens(pattern) ==
    {j \in DOMAIN pattern :
        /\ IsTokenEnd(pattern, j)
        /\ \A i \in DOMAIN events : events[i].name # TokenName(pattern, j)}

\* C19 as claimed: every pattern with a token whose marker is none of '+',
\* '-', '!' fails to compile with ValueError, and match on it raises instead
\* of returning an empty list, whatever the names of its tokens and wherever
\* the token stands.
C19_BadMarkerAlwaysRaises ==
    \A c \in CompileCalls :
        BadMarkerTokens(history[c].pattern) # {} => history[c].outcome = "ValueError"

\* The name-not-found condition comes first: every subpattern has a token,
\* nothing trails the last token, and a token that names no event of the
\* trace stands at or before the first token with a bad marker
NameNotFoundComesFirst(pattern) ==
    /\ ~HasSubpatternWithoutToken(pattern)
    /\ ~HasTrailingText(pattern)
    /\ \E j \in AbsentNameTokens(pattern) : j <= Min(BadMarkerTokens(pattern))

\* C19 as amended: a pattern with a token whose marker is none of '+', '-',
\* '!' fails to compile with ValueError, and match on it raises, when the
\* names of all tokens up to and including the first such token are in the
\* trace, or when a subpattern has no token or text trails the last token;
\* otherwise the name that is not in the trace is reported first:
\* _encode_event_pattern raises the name-not-found error and match returns
\* an empty list.
C19_BadMarkerRaisesUnlessNameNotFoundFirst ==
    \A c \in CompileCalls :
        LET pattern == history[c].pattern
        IN BadMarkerTokens(pattern) # {} =>
              IF NameNotFoundComesFirst(pattern)
              THEN IF history[c].op = "match"
                   THEN history[c].outcome = "return" /\ history[c].chains = <<>>
                   ELSE history[c].outcome = "EventNameNotFoundError"
              ELSE history[c].outcome = "ValueError"

\* A bad marker on the second token, after a valid token of a known name:
\* match raises
C19_Witness ==
    /\ history # <<>>
    /\ Ret.op = "match"
    /\ Ret.pattern = <<"a", "+", "a", "$">>
    /\ Ret.outcome = "ValueError"

-----------------------------------------------------------------------------
(* C20 *)

\* The step is a match that raises a pattern-syntax error
IsSyntaxErrorStep ==
    /\ Len(history') = Len(history) + 1
    /\ Ret'.op = "match"
    /\ Ret'.outcome = "ValueError"

\* The step is a match that returns, made right after a first call that was
\* a match raising a pattern-syntax error
IsMatchAfterFailedFirstCall ==
    /\ Len(history) = 1
    /\ Ret.op = "match" /\ Ret.outcome = "ValueError"
    /\ Len(history') = 2
    /\ Ret'.op = "match" /\ Ret'.outcome = "return"

\* What the call does on an analyzer on which no call was made
OnFreshAnalyzer(call) ==
    LET st == ProcessMatches(MatchesOf(call),
                   [chains |-> <<>>, event_chains |-> <<>>, index |-> <<>>,
                    matched |-> <<>>],
                   call.name, events, n_codes)
    IN [chains |-> st.chains,
        event_chains |-> SortByTs(st.event_chains, st.chains).event_chains,
        index |-> st.index, returned |-> st.matched]

\* C20: a match that raises a pattern-syntax error leaves event_chains
\* (content, names and order) and the chain index as they were, and a later
\* valid match does what it would have done had the failed call not been
\* made.
C20_SyntaxErrorCommitsNothing ==
    [][/\ IsSyntaxErrorStep =>
            /\ chains' = chains
            /\ event_chains' = event_chains
            /\ event_chain_index' = event_chain_index
       /\ IsMatchAfterFailedFirstCall =>
            /\ chains' = OnFreshAnalyzer(Ret').chains
            /\ event_chains' = OnFreshAnalyzer(Ret').event_chains
            /\ event_chain_index' = OnFreshAnalyzer(Ret').index
            /\ Ret'.chains = OnFreshAnalyzer(Ret').returned]_vars

\* A match raises ValueError on an analyzer that holds chains of an earlier
\* match
C20_Witness ==
    /\ Len(history) = 2
    /\ history[1].op = "match" /\ history[1].outcome = "return"
    /\ Len(history[1].chains) >= 1
    /\ history[2].op = "match" /\ history[2].outcome = "ValueError"
    /\ history[2].pattern = <<"a", "+", "b", "$">>
    /\ Len(event_chains) >= 1

-----------------------------------------------------------------------------
(* C21 *)

\* The construction has been tried, with either outcome
ConstructionTried == history # <<>> /\ history[1].op = "__init__"

\* The name has one of the characters '+', '-', '!', '*'
HasReservedCharacter(nm) == \E k \in DOMAIN nm : nm[k] \in {"+", "-", "!", "*"}

\* C21: the construction of an analyzer fails with ValueError if and only if
\* some event name of the trace contains one of the characters '+', '-', '!'
\* and '*'; a trace whose names are free of the four is accepted.
C21_ConstructionFailsIffReservedCharacter ==
    ConstructionTried =>
        (history[1].outcome = "ValueError"
            <=> \E i \in DOMAIN events : HasReservedCharacter(events[i].name))

\* A trace with the names 'a$' and '*' was refused, because of the wildcard
C21_Witness ==
    /\ ConstructionTried
    /\ history[1].outcome = "ValueError"
    /\ Len(events) = 2
    /\ events[1].name = <<"a", "$">>
    /\ events[2].name = <<"*">>

-----------------------------------------------------------------------------
(* C22 *)

\* The step is a read of a property of the chain
IsPropertyRead ==
    /\ Len(history') = Len(history) + 1
    /\ history'[Len(history')].op \in ChainProperties

\* The number a read of ts or dur returned
ValueOf(read) ==
    IF "value_frac" \in DOMAIN read
    THEN ExactSum(NumberOfInt(read.value), read.value_frac)
    ELSE NumberOfInt(read.value)

\* x is a double nearest to the number d: d itself when d has no more than
\* 53 bits from its highest bit on, else a number of the doubles' grid at d
\* that lies no more than half the distance of the grid from d
IsNearestDouble(x, d) ==
    LET p == TopBit(d.mag) - 52
        off == ExactSum(x, Negated(d)).mag
    IN IF p <= 0 THEN x = d
       ELSE /\ \A k \in 0..(p - 1) : Bit(x.mag, k) = 0
            /\ ~DigitsLess(DigitsOfPow2(p), DigitsTimes(off, 2, 1, 0))

\* The read is the property of a chain of the events evs that the claim
\* says it is
IsPropertyOf(read, evs) ==
    LET n == Len(evs)
    IN /\ read.outcome = "return"
       /\ read.op = "begin_event" => read.value = evs[1]
       /\ read.op = "end_event" => read.value = evs[n]
       /\ read.op = "ts" =>
             /\ "ts" \in DOMAIN evs[1]
             /\ ValueOf(read) = TsOf(evs[1])
       /\ read.op = "dur" =>
             /\ "ts" \in DOMAIN evs[1] /\ "ts" \in DOMAIN evs[n]
             /\ IsNearestDouble(ValueOf(read),
                                ExactSum(TsOf(evs[n]), Negated(TsOf(evs[1]))))
             /\ ("ts_frac" \notin DOMAIN evs[1] /\ "ts_frac" \notin DOMAIN evs[n])
                   => read.value = evs[n].ts - evs[1].ts /\ "value_frac" \notin DOMAIN read

\* The read is one of a timestamp that the chain of the events evs does not
\* have: ts on a chain whose first event has no timestamp, dur on a chain
\* whose first or last event has none
ReadsMissingTs(read, evs) ==
    \/ read.op = "ts" /\ "ts" \notin DOMAIN evs[1]
    \/ read.op = "dur" /\ ("ts" \notin DOMAIN evs[1] \/ "ts" \notin DOMAIN evs[Len(evs)])

\* C22: reading ts, dur, begin_event or end_event of a chain without events
\* raises AttributeError and returns no default; on a chain with at least
\* one event, begin_event and end_event are the first and the last event,
\* ts is the timestamp of the first event and dur the timestamp of the last
\* event minus that of the first (the float nearest to the difference; the
\* events of a flow added by add_flow are events of the chain like the
\* others).
C22_EmptyChainHasNoProperties ==
    [][IsPropertyRead =>
        LET read == history'[Len(history')]
            evs == chains[1].events
        IN IF Len(evs) = 0
           THEN read.outcome = "AttributeError"
           ELSE IsPropertyOf(read, evs)]_vars

\* What the properties do: AttributeError on a chain without events and on a
\* read of a timestamp that the first (for dur, the first or the last) event
\* of the chain does not have; every other read returns what the claim says
PropertyReadRaisesOrReturnsAsClaimed ==
    [][IsPropertyRead =>
        LET read == history'[Len(history')]
            evs == chains[1].events
        IN IF Len(evs) = 0 \/ ReadsMissingTs(read, evs)
           THEN read.outcome = "AttributeError"
           ELSE IsPropertyOf(read, evs)]_vars

\* ts was read on a chain of one metadata event, which has no timestamp, and
\* raised AttributeError
TsRaisedOnChainWithEvents ==
    /\ history # <<>>
    /\ Ret.op = "ts" /\ Ret.outcome = "AttributeError"
    /\ Len(chains[1].events) = 1
    /\ chains[1].events[1].type = "M"

\* dur was read on the empty chain and raised; two events were added, at 0
\* and at 1, and dur was read again
DurOfEmptyChainThenOfTwoEvents ==
    /\ Len(history) = 2
    /\ history[1].op = "dur"
    /\ history[1].outcome = "AttributeError"
    /\ history[2].op = "dur"
    /\ history[2].outcome = "return"
    /\ history[2].value = 1
    /\ Len(chains[1].events) = 2
    /\ chains[1].events[1].type = "B"
    /\ chains[1].events[1].ts = 0
    /\ chains[1].events[2].type = "E"
    /\ chains[1].events[2].ts = 1

\* A flow was added to a chain of one begin at 2^24 + 1, where the float
\* dest.ts - 1e-9 is dest.ts itself: the flow end has the timestamp of the
\* begin, and dur of the chain was read as 0
FlowEndAtItsDestination ==
    /\ history # <<>>
    /\ Ret.op = "dur" /\ Ret.outcome = "return"
    /\ Ret.value = 0 /\ "value_frac" \notin DOMAIN Ret
    /\ Len(chains[1].events) = 3
    /\ chains[1].events[1].ts = 16777217
    /\ chains[1].events[3].type = "f"

\* A flow was added to a chain of one begin at 2^24, where the float next
\* below is 2^-29 away: dur of the chain was read as -2^-29 (2^53 of the
\* unit 2^-82)
FlowEndAtNextDoubleBelow ==
    /\ history # <<>>
    /\ Ret.op = "dur" /\ Ret.outcome = "return"
    /\ Ret.value = 0
    /\ "value_frac" \in DOMAIN Ret
    /\ Ret.value_frac = Number(TRUE, DigitsOfPow2(53))
    /\ Len(chains[1].events) = 3
    /\ chains[1].events[1].ts = 16777216
    /\ chains[1].events[3].type = "f"

\* A flow from a begin at 2^24 to a begin at 0 was added to the chain of
\* the two: the flow end is at -1e-9, and dur of the chain, the float
\* -1e-9 - 16777216, was read as -16777216
DurAbsorbsFlowEnd ==
    /\ history # <<>>
    /\ Ret.op = "dur" /\ Ret.outcome = "return"
    /\ Ret.value = -16777216 /\ "value_frac" \notin DOMAIN Ret
    /\ Len(chains[1].events) = 4
    /\ chains[1].events[1].ts = 16777216
    /\ chains[1].events[4].type = "f"
    /\ chains[1].events[4].ts = 0
    /\ "ts_frac" \in DOMAIN chains[1].events[4]
    /\ chains[1].events[4].ts_frac = Negated(Float1e9th)

-----------------------------------------------------------------------------
(* C23 *)

\* The step is a call of to_tef_json
IsExportStep ==
    /\ Len(history') = Len(history) + 1
    /\ history'[Len(history')].op = "to_tef_json"

\* The exported list of the call is laid out as claimed: the events of the
\* trace in trace order (name, phase, timestamp in ms and flow id as the
\* event has them, no pid of the export), the metadata events of the trace
\* (process names, then thread names), and per chain of event_chains a begin
\* and an end with the name of the chain, the exported timestamps of its
\* first and last events and the given pid
ExportLayout(call) ==
    LET tef == call.tef
        n == Len(events)
        np == Len(process_names)
        m == np + Len(thread_names)
        k == Len(event_chains)
        SameTs(d, e) ==
            /\ ("ts" \in DOMAIN d) = ("ts" \in DOMAIN e)
            /\ "ts" \in DOMAIN e =>
                  [f \in DOMAIN d \cap {"ts", "ts_frac"} |-> d[f]]
                     = Attribute("ts", "ts_frac", FloatTimes(TsOf(e), 1000))
    IN /\ Len(tef) = n + m + 2 * k
       /\ \A i \in 1..n :
             /\ tef[i].name = events[i].name
             /\ tef[i].ph = TefPhase(events[i].type)
             /\ SameTs(tef[i], events[i])
             /\ "flow_id" \in DOMAIN events[i] => tef[i].id = events[i].flow_id
             /\ "pid" \notin DOMAIN tef[i]
       /\ \A j \in 1..m :
             /\ tef[n + j].ph = "M"
             /\ tef[n + j].name = (IF j <= np THEN <<"process_name">>
                                   ELSE <<"thread_name">>)
             /\ tef[n + j].args.name = (IF j <= np THEN process_names[j].name
                                        ELSE thread_names[j - np].name)
       /\ \A c \in 1..k :
             LET chain == chains[event_chains[c]]
                 begin_event == tef[n + m + 2 * c - 1]
                 end_event == tef[n + m + 2 * c]
             IN /\ begin_event.ph = "B"
                /\ end_event.ph = "E"
                /\ begin_event.name = chain.name
                /\ end_event.name = chain.name
                /\ SameTs(begin_event, chain.events[1])
                /\ SameTs(end_event, chain.events[Len(chain.events)])
                /\ begin_event.pid = call.pid
                /\ end_event.pid = call.pid

\* Some chain of event_chains begins or ends with an event that has no
\* timestamp
SomeChainLacksTs ==
    \E c \in DOMAIN event_chains :
        LET evs == chains[event_chains[c]].events
        IN "ts" \notin DOMAIN evs[1] \/ "ts" \notin DOMAIN evs[Len(evs)]

\* C23: every call of to_tef_json(pid) exports every event of the trace in
\* trace order, then the metadata events of the trace (process names, then
\* thread names), then for each chain in event_chains order a begin event
\* followed by an end event, both with the name of the chain, the (exported)
\* timestamps of its first and last events and the given pid; the number of
\* exported events is len(trace.events) + metadata events
\* + 2 * len(event_chains).
C23_ExportIsEventsMetadataChainPairs ==
    [][IsExportStep =>
        LET call == history'[Len(history')]
        IN call.outcome = "return" /\ ExportLayout(call)]_vars

\* What the export does: it raises AttributeError exactly when a chain of
\* event_chains begins or ends with an event without a timestamp (a chain
\* left there by a match that raised in its sort), and exports nothing then;
\* every export that returns is laid out as claimed
ExportRaisesOrIsLaidOut ==
    [][IsExportStep =>
        LET call == history'[Len(history')]
        IN IF SomeChainLacksTs
           THEN call.outcome = "AttributeError" /\ call.tef = <<>>
           ELSE call.outcome = "return" /\ ExportLayout(call)]_vars

\* A trace of three events with a process name and a thread name, one chain
\* n1 over the first two events, exported with pid 7: seven exported events
ExportOfSevenEvents ==
    /\ Len(history) = 3
    /\ history[2].op = "match"
    /\ history[3].op = "to_tef_json"
    /\ history[3].pid = 7
    /\ Len(events) = 3
    /\ Len(process_names) = 1
    /\ Len(thread_names) = 1
    /\ Len(event_chains) = 1
    /\ Len(chains[event_chains[1]].events) = 2
    /\ Len(history[3].tef) = 7
    /\ history[3].tef[6].name = <<"n", "1">>
    /\ history[3].tef[6].pid = 7

\* The trace of a begin of a without a timestamp and an end of a: match of
\* 'a+*a-' appended the chain and raised AttributeError in its sort, and the
\* export raised AttributeError
ExportRaised ==
    /\ Len(history) = 3
    /\ Len(events) = 2
    /\ "ts" \notin DOMAIN events[1]
    /\ history[2].op = "match"
    /\ history[2].outcome = "AttributeError"
    /\ Len(event_chains) = 1
    /\ history[3].op = "to_tef_json"
    /\ history[3].outcome = "AttributeError"

-----------------------------------------------------------------------------
(* C24 *)

\* The step is a call of match or of to_tef_json, with any outcome
IsAnalyzerCall ==
    /\ Len(history') = Len(history) + 1
    /\ history'[Len(history')].op \in {"match", "to_tef_json"}

\* C24: no call of match (whatever its outcome) and no call of to_tef_json
\* changes the events of the analyzed trace, event_name_codes, the code
\* width or events_string; and a step that changes the events of the trace
\* (add_event, add_events) only appends, so that the event added i-th stays
\* at index i.
C24_AnalyzerLeavesTraceAlone ==
    [][/\ IsAnalyzerCall =>
             /\ events' = events
             /\ event_name_codes' = event_name_codes
             /\ n_codes' = n_codes
             /\ events_string' = events_string
       /\ events' # events =>
             /\ Len(events') > Len(events)
             /\ \A i \in DOMAIN events : events'[i] = events[i]
             /\ \A i \in DOMAIN events' : events'[i].id = i]_vars

\* Three events added one by one or in bulk, then a match that raised
\* ValueError and a match that found a chain
C24_Witness ==
    /\ Len(history) = 3
    /\ history[2].op = "match"
    /\ history[2].outcome = "ValueError"
    /\ history[3].op = "match"
    /\ history[3].outcome = "return"
    /\ Len(history[3].chains) = 1
    /\ Len(events) = 3
    /\ \A i \in 1..3 : events[i].id = i

-----------------------------------------------------------------------------
(* C25 *)

\* The calls of _encode_event_pattern that returned
Compilations ==
    {c \in DOMAIN history : /\ history[c].op = "_encode_event_pattern"
                            /\ history[c].outcome = "return"}

StartsWith(text, prefix) ==
    Len(text) >= Len(prefix) /\ SubSeq(text, 1, Len(prefix)) = prefix

Drop(text, k) == SubSeq(text, k + 1, Len(text))

\* The items of a pattern of well-formed tokens, in pattern order: a token
\* <name><marker> or a wildcard
RECURSIVE PatternItems(_)
PatternItems(pattern) ==
    IF pattern = <<>> THEN <<>>
    ELSE IF Head(pattern) = "*" THEN <<[kind |-> "*"]>> \o PatternItems(Tail(pattern))
    ELSE LET j == Min({i \in DOMAIN pattern : ~IsWordChar(pattern[i])})
         IN <<[kind |-> "token", name |-> SubSeq(pattern, 1, j - 1), marker |-> pattern[j]]>>
            \o PatternItems(Drop(pattern, j))

\* The text [a-zA-Z]{w}\W)*? that ends every wildcard fragment
FragmentEnd(w) ==
    <<"[", "a", "-", "z", "A", "-", "Z", "]", "{">> \o Decimal(w)
    \o <<"}", "\\", "W", ")", "*", "?">>

\* The text is e1|e2|...: one or more entries code\+ or code\-, no begin
\* after an end
RECURSIVE IsExclusionList(_, _, _)
IsExclusionList(text, w, ends_only) ==
    /\ Len(text) >= w + 2
    /\ \A i \in 1..w : IsLetter(text[i])
    /\ text[w + 1] = "\\"
    /\ text[w + 2] \in (IF ends_only THEN {"-"} ELSE {"+", "-"})
    /\ \/ Len(text) = w + 2
       \/ /\ Len(text) > w + 3
          /\ text[w + 3] = "|"
          /\ IsExclusionList(Drop(text, w + 3), w, text[w + 2] = "-")

\* The length of the wildcard fragment the text starts with, 0 if it starts
\* with none: '(?:' + optional '(?!e1|e2|...)' + '[a-zA-Z]{w}\W)*?', the
\* lookahead in exclusive mode only and never with an empty list
FragmentLen(text, w, exclusive) ==
    IF ~StartsWith(text, <<"(", "?", ":">>) THEN 0
    ELSE LET rest == Drop(text, 3)
         IN IF StartsWith(rest, <<"(", "?", "!">>)
            THEN LET closes == {i \in DOMAIN rest : rest[i] = ")"}
                 IN IF ~exclusive \/ closes = {} THEN 0
                    ELSE LET c == Min(closes)
                         IN IF /\ IsExclusionList(SubSeq(rest, 4, c - 1), w, FALSE)
                               /\ StartsWith(Drop(rest, c), FragmentEnd(w))
                            THEN 3 + c + Len(FragmentEnd(w))
                            ELSE 0
            ELSE IF StartsWith(rest, FragmentEnd(w)) THEN 3 + Len(FragmentEnd(w))
            ELSE 0

\* The text is, item by item, '(code)\marker' for a token and a wildcard
\* fragment for a wildcard, and nothing else
RECURSIVE Conforms(_, _, _)
Conforms(text, items, exclusive) ==
    IF items = <<>> THEN text = <<>>
    ELSE IF Head(items).kind = "token"
    THEN LET group == <<"(">> \o event_name_codes[Head(items).name]
                      \o <<")", "\\", Head(items).marker>>
         IN /\ StartsWith(text, group)
            /\ Conforms(Drop(text, Len(group)), Tail(items), exclusive)
    ELSE LET n == FragmentLen(text, n_codes, exclusive)
         IN n > 0 /\ Conforms(Drop(text, n), Tail(items), exclusive)

\* The capturing groups and the wildcard fragments of a regex text
CapturingGroups(text) ==
    {i \in 1..(Len(text) - 1) : text[i] = "(" /\ text[i + 1] # "?"}
Fragments(text) ==
    {i \in 1..(Len(text) - 2) : SubSeq(text, i, i + 2) = <<"(", "?", ":">>}

\* 'event000+event001+*event002-event003-' and its compiled text in the tests
ExamplePattern == <<"e", "0", "0", "0", "+", "e", "0", "0", "1", "+", "*", "e", "0", "0", "2", "-", "e", "0", "0", "3", "-">>
ExampleEncoded ==
    <<"(", "A", ")", "\\", "+", "(", "B", ")", "\\", "+", "(", "?", ":", "(", "?", "!", "A", "\\", "+", "|", "B", "\\", "+", "|", "C", "\\", "-", "|", "D", "\\", "-", ")", "[", "a", "-", "z", "A", "-", "Z", "]", "{", "1", "}", "\\", "W", ")", "*", "?", "(", "C", ")", "\\", "-", "(", "D", ")", "\\", "-">>

\* C25: the compiled regex is, in pattern order, one capturing group
\* '(code)\marker' per token and one wildcard fragment per '*'; so it has as
\* many capturing groups as the pattern has tokens and as many fragments as
\* the pattern has wildcards.  An exclusive fragment is '(?:' + optional
\* '(?!e1|e2|...)' + '[a-zA-Z]{w}\W)*?', the excluded begins listed before
\* the excluded ends and the lookahead left out when nothing is excluded;
\* 'event000+event001+*event002-event003-' compiles to
\* '(A)\+(B)\+(?:(?!A\+|B\+|C\-|D\-)[a-zA-Z]{1}\W)*?(C)\-(D)\-'.
C25_RegexIsGroupsAndFragmentsInOrder ==
    \A c \in Compilations :
        LET call == history[c]
            items == PatternItems(call.pattern)
            tokens == {i \in DOMAIN items : items[i].kind = "token"}
            stars == {i \in DOMAIN call.pattern : call.pattern[i] = "*"}
        IN /\ Conforms(call.encoded, items, call.exclusive)
           /\ Cardinality(CapturingGroups(call.encoded)) = Cardinality(tokens)
           /\ Cardinality(Fragments(call.encoded)) = Cardinality(stars)
           /\ (call.pattern = ExamplePattern /\ call.exclusive /\ n_codes = 1)
                 => call.encoded = ExampleEncoded

\* The pattern of the tests was compiled on the trace of the tests
C25_Witness ==
    /\ Compilations # {}
    /\ n_codes = 1
    /\ history[1].pattern = ExamplePattern
    /\ history[1].exclusive
    /\ history[1].encoded = ExampleEncoded

-----------------------------------------------------------------------------
(* C26 *)

\* The tokens of a pattern of well-formed tokens, in pattern order
TokensOf(pattern) == SelectSeq(PatternItems(pattern), LAMBDA it : it.kind = "token")

\* C26: for every code width and every compiled pattern, every regex match
\* on events_string is event-aligned: each capturing group and each
\* repetition of a wildcard starts at a (0-based) offset that is a multiple
\* of code_width + 1, and the g-th group starts at the event whose name and
\* type the g-th token of the pattern names.
C26_MatchesAreEventAligned ==
    MatchReturned =>
        LET call == Ret
            ms == MatchesOf(call)
            toks == TokensOf(call.pattern)
            step == n_codes + 1
        IN /\ Len(call.chains) = Len(ms)
           /\ \A k \in DOMAIN ms :
                 /\ Len(ms[k].groups) = Len(toks)
                 /\ \A g \in DOMAIN ms[k].groups :
                       LET offset == ms[k].groups[g] - 1
                       IN /\ offset % step = 0
                          /\ events[(offset \div step) + 1].name = toks[g].name
                          /\ toks[g].marker =
                                (IF events[(offset \div step) + 1].type = "B" THEN "+"
                                 ELSE IF events[(offset \div step) + 1].type = "E" THEN "-"
                                 ELSE "!")
                 /\ \A w \in DOMAIN ms[k].gaps :
                       \A j \in DOMAIN ms[k].gaps[w] : (ms[k].gaps[w][j] - 1) % step = 0

\* Codes of two letters: event000+*event000- matched the four events at the
\* end of the trace, the wildcard taking the two events in between
C26_Witness ==
    /\ MatchReturned
    /\ n_codes = 2
    /\ Ret.pattern = EventName(0) \o <<"+", "*">> \o EventName(0) \o <<"-">>
    /\ Len(Ret.chains) = 1
    /\ Len(chains[Ret.chains[1]].events) = 4
    /\ chains[Ret.chains[1]].events[4].id = Len(events)
    /\ Len(MatchesOf(Ret)[1].gaps[1]) = 2

-----------------------------------------------------------------------------
(* C27 *)

\* The calls of match that returned
ReturnedMatches ==
    {c \in DOMAIN history : history[c].op = "match" /\ history[c].outcome = "return"}

\* The trace positions of the first and of the last event of a chain
FirstPosition(id) == chains[id].events[1].id
LastPosition(id) == chains[id].events[Len(chains[id].events)].id

\* C27: the chains returned by one call of match are listed in increasing
\* trace position and their ranges of events are pairwise disjoint, so that
\* every event of the trace is in at most one of them; the list has one
\* entry per regex match, whether the chain was created by the call or
\* existed before and was only renamed.
C27_ReturnedChainsAreOrderedAndDisjoint ==
    \A c \in ReturnedMatches :
        LET returned == history[c].chains
        IN /\ Len(returned) = Len(MatchesOf(history[c]))
           /\ \A i \in DOMAIN returned :
                 FirstPosition(returned[i]) <= LastPosition(returned[i])
           /\ \A i, j \in DOMAIN returned :
                 i < j => LastPosition(returned[i]) < FirstPosition(returned[j])
           /\ \A e \in DOMAIN events :
                 Cardinality({i \in DOMAIN returned :
                                \E k \in DOMAIN chains[returned[i]].events :
                                   chains[returned[i]].events[k].id = e}) <= 1

\* a+*a- matched two regions of two or more events each; matched again under
\* another name, it returned the same two chains, renamed
C27_Witness ==
    /\ Len(history) = 2
    /\ ReturnedMatches = {1, 2}
    /\ history[1].pattern = <<"a", "+", "*", "a", "-">>
    /\ history[2].pattern = <<"a", "+", "*", "a", "-">>
    /\ history[1].name # history[2].name
    /\ history[1].exclusive = history[2].exclusive
    /\ Len(history[1].chains) = 2
    /\ history[2].chains = history[1].chains
    /\ Len(event_chains) = 2
    /\ \A i \in 1..2 : chains[history[2].chains[i]].name = history[2].name
    /\ \A i \in 1..2 : Len(chains[history[2].chains[i]].events) >= 2

-----------------------------------------------------------------------------
(* C28 *)

\* The character at position i is part of a name-marker token: a marker
\* right after a word character, or a word character of a run that a marker
\* follows
BelongsToToken(pattern, i) ==
    IF IsWordChar(pattern[i])
    THEN \E j \in (i + 1)..Len(pattern) :
            IsTokenEnd(pattern, j) /\ \A k \in i..(j - 1) : IsWordChar(pattern[k])
    ELSE IsTokenEnd(pattern, i)

\* Some character of the pattern is neither part of a token nor a wildcard
HasStrayText(pattern) ==
    \E i \in DOMAIN pattern : pattern[i] # WILDCARD /\ ~BelongsToToken(pattern, i)

\* C28: compilation fails with a pattern-syntax error (ValueError) for every
\* pattern that has characters belonging neither to a name-marker token nor
\* to a wildcard, wherever they stand: before the first token of a
\* subpattern, between two tokens, or at the end of a subpattern.
C28_StrayTextIsSyntaxError ==
    \A c \in CompileCalls :
        HasStrayText(history[c].pattern) => history[c].outcome = "ValueError"

-----------------------------------------------------------------------------
(* C29 *)

\* The pattern fails a structural check: a subpattern without a token, or
\* text after the last token of the final subpattern
FailsStructuralCheck(pattern) ==
    HasSubpatternWithoutToken(pattern) \/ HasTrailingText(pattern)

\* The pattern refers to a name that no event of the trace has
NamesAbsentEvent(pattern) ==
    \E nm \in NamesIn(pattern) : \A i \in DOMAIN events : events[i].name # nm

\* C29: the structural checks come before the names are resolved: match
\* raises ValueError on a pattern with a subpattern without a token or with
\* trailing text in its final subpattern even if the pattern names events
\* that are not in the trace, on a trace without events as well; match
\* returns the empty list for an absent name only if the pattern passed
\* both checks.
C29_StructureIsCheckedBeforeNames ==
    \A c \in CompileCalls :
        LET call == history[c]
        IN call.op = "match" /\ NamesAbsentEvent(call.pattern) =>
              /\ FailsStructuralCheck(call.pattern) => call.outcome = "ValueError"
              /\ call.outcome = "return" =>
                    ~FailsStructuralCheck(call.pattern) /\ call.chains = <<>>

\* On a trace without events, a pattern with trailing text after a token
\* whose name is (as every name) absent: match raises
C29_Witness ==
    /\ events = <<>>
    /\ history # <<>>
    /\ Ret.op = "match"
    /\ Ret.pattern = <<"c", "+", "a">>
    /\ NamesAbsentEvent(Ret.pattern)
    /\ HasTrailingText(Ret.pattern)
    /\ Ret.outcome = "ValueError"

-----------------------------------------------------------------------------
(* C30 *)

\* The calls made with the pattern <name>+ for a name of the trace
NameCalls ==
    {c \in CompileCalls :
        /\ history[c].pattern # <<>>
        /\ Front(history[c].pattern) \in DOMAIN event_name_codes
        /\ history[c].pattern[Len(history[c].pattern)] = BEGIN}

\* The trace positions of the begin events named nm
BeginEventsNamed(nm) ==
    {i \in DOMAIN events : events[i].name = nm /\ events[i].type = "B"}

\* Every chain of the list is one event, and the events are those at the
\* positions of the set, in trace order
AreSingleEvents(returned, positions) ==
    /\ Len(returned) = Cardinality(positions)
    /\ \A k \in DOMAIN returned : Len(chains[returned[k]].events) = 1
    /\ \A k \in DOMAIN returned : FirstPosition(returned[k]) \in positions
    /\ \A k \in 1..(Len(returned) - 1) :
          FirstPosition(returned[k]) < FirstPosition(returned[k + 1])

\* The call compiled the pattern to the group of the code of its name and
\* the begin marker, or matched exactly the begin events of that name
RefersToItsName(call) ==
    LET nm == Front(call.pattern)
    IN /\ call.outcome = "return"
       /\ call.op = "_encode_event_pattern" =>
             call.encoded = <<"(">> \o event_name_codes[nm] \o <<")", "\\", "+">>
       /\ call.op = "match" =>
             AreSingleEvents(call.chains, BeginEventsNamed(nm))

\* C30: every event name accepted by the encoder can be referred to in a
\* pattern: for each name n of event_name_codes, the pattern n followed by
\* '+' compiles to '(code(n))\+' and matches exactly the begin events named
\* n, also for accepted names with non-word characters such as '.', ' ' or
\* '$'.
C30_AcceptedNamesCanBeReferenced ==
    \A c \in NameCalls : RefersToItsName(history[c])

\* What the tokenizer allows: the names that are non-empty runs of word
\* characters (letters of any alphabet, digits, '_') can be referred to
WordNamesCanBeReferenced ==
    \A c \in NameCalls :
        LET nm == Front(history[c].pattern)
        IN (nm # <<>> /\ \A k \in DOMAIN nm : IsWordChar(nm[k]))
              => RefersToItsName(history[c])

\* The name of one non-ASCII letter was matched by its pattern
NonAsciiNameWasMatched ==
    /\ history # <<>>
    /\ Ret.op = "match"
    /\ Ret.pattern = <<"é", "+">>
    /\ Ret.outcome = "return"
    /\ Len(Ret.chains) >= 1

====
